---------------------------- MODULE Spec2Model ----------------------------
(***************************************************************************)
(* Memory Mend: the pattern codec (identifier -> grid -> identifier), the  *)
(* identifier hash and the optical / manual decoders.                      *)
(*                                                                         *)
(* Strings are sequences of UTF-16 code units (naturals): "A" is <<65>>,   *)
(* the bit string "10" is <<49, 48>>, the wildcard "*" is <<42>>.          *)
(* A grid is a sequence of rows, a row a sequence of BOOLEAN.              *)
(***************************************************************************)
EXTENDS Integers, Sequences, FiniteSets, TLC

VARIABLES
    id,              \* identifier handed to the encoder (string)
    binary,          \* bit string handed to binaryToGrid
    gridSize,        \* grid size handed to binaryToGrid
    grid,            \* grid returned by binaryToGrid
    bitIndex,        \* binaryToGrid's local bitIndex when it returns
    scan,            \* how the grid under the camera / in the editor was made
    scanGrid,        \* analyzing page: grid ($state)
    patternId,       \* analyzing page: patternId ($state)
    manualGrid,      \* manual page: grid ($state)
    manualPatternId, \* manual page: patternId ($state)
    firstCall,       \* a call of hashMemory: its arguments, locals and result
    secondCall,      \* a later call of hashMemory
    idLength,        \* argument of the last call of calculateGridSize
    requiredSize,    \* its result
    stitchGrid,      \* extractDiagonalLines: its argument grid
    skipCorners,     \* extractDiagonalLines: its argument skipCorners
    lines,           \* extractDiagonalLines: the list it returns
    checkedPattern,  \* needsMigration: its argument pattern
    needs,           \* needsMigration: what it returned
    firstMigration,  \* a step of migrateAllMends: its mend, the clock, its result
    secondMigration, \* a later step of migrateAllMends
    contractCall,    \* a call of the encoder, the optimizer or the decoder: its
                     \* argument, whether it threw, and what it returned
    svgPattern,      \* generateSVG: its argument pattern
    svgCellSize,     \* generateSVG: its argument cellSize
    svg,             \* generateSVG: the document it returns
    route,           \* the page the router shows
    scannedImage,    \* scanStore.scannedImage: whether an image is held
    detectionError,  \* scanStore.detectionError
    historyMends,    \* historyStore.mends: the pattern ids of the saved mends
    page,            \* analyzing page: where its onMount callback stands, its
                     \* $state fields, and whether the user left it meanwhile
    manualPage,      \* manual page: where unlockMend stands and its $state fields
    hashArg,         \* simpleHash: its argument, <<>> inside <<>> when not called
    hashValue,       \* simpleHash: the number it returns
    storedMends,     \* localStorage 'memory-mend:mends': id and revision of each
    mends,           \* historyStore.mends, likewise
    loads,           \* the loadFromStorage calls suspended at their await:
                     \* what each read from storage
    deletedIds,      \* the ids deleteMend has returned for, not added since
    mendStore,       \* mendStore: the fields of the workflow in progress
    currentMend,     \* localStorage 'memory-mend:current': the persisted draft
    settingMemory,   \* the setMemory call suspended at its await, if any
    scanning,        \* the scanning page of the current visit
    location         \* the route of the last goto of the workflow pages

codecVars == <<id, binary, gridSize, grid, bitIndex>>
pageVars == <<scan, scanGrid, patternId, manualGrid, manualPatternId>>
hashVars == <<firstCall, secondCall>>
sizeVars == <<idLength, requiredSize>>
linesVars == <<stitchGrid, skipCorners, lines>>
\* the variables of the components modelled after the codec
migrationVars == <<checkedPattern, needs, firstMigration, secondMigration>>
contractVars == <<contractCall>>
svgVars == <<svgPattern, svgCellSize, svg>>
analyzingVars == <<route, scannedImage, detectionError, historyMends, page, manualPage>>
simpleHashVars == <<hashArg, hashValue>>
historyVars == <<storedMends, mends, loads, deletedIds>>
workflowVars == <<mendStore, currentMend, settingMemory, scanning, location>>
storeVars == <<historyVars, workflowVars>>
laterVars == <<linesVars, migrationVars, contractVars, svgVars, analyzingVars,
               simpleHashVars, storeVars>>
vars == <<codecVars, pageVars, hashVars, sizeVars, laterVars>>

-----------------------------------------------------------------------------
(* Bounds of the model                                                     *)

\* largest grid size handed to binaryToGrid and to the decoders
MaxGridSize == 7
\* longest free bit string handed to binaryToGrid
MaxBits == 3
\* longest identifier length handed to calculateGridSize
MaxIdLength == 120
\* largest free grid handed to extractDiagonalLines
MaxLinesSize == 4
\* how many cells of such a grid differ from an all-false or an all-true grid
MaxStitches == 2
\* largest row count and declared gridSize of a stored pattern
MaxPatternSize == 16
\* longest identifier handed to the encoder
MaxIdChars == 8
\* longest free string handed to simpleHash
MaxMessageLen == 4
\* most loadFromStorage calls suspended at once
MaxLoads == 2
\* most revisions updateMend gives a mend
MaxRevision == 1

-----------------------------------------------------------------------------
(* JavaScript string primitives                                            *)

\* the characters '0', '1' and '*'
Zero == 48
One == 49
Star == 42

Min(a, b) == IF a < b THEN a ELSE b
Max(a, b) == IF a > b THEN a ELSE b

\* String.prototype.substring(start, end)
Substring(s, start, end) ==
    LET a == Min(Max(start, 0), Len(s))
        b == Min(Max(end, 0), Len(s))
    IN SubSeq(s, Min(a, b) + 1, Max(a, b))

\* String.prototype.padStart(len, c) with a one-character filler
PadStart(s, len, c) ==
    IF Len(s) >= len THEN s ELSE [i \in 1..(len - Len(s)) |-> c] \o s

\* String.prototype.padEnd(len, c) with a one-character filler
PadEnd(s, len, c) ==
    IF Len(s) >= len THEN s ELSE s \o [i \in 1..(len - Len(s)) |-> c]

\* String.prototype.includes(needle)
Includes(hay, needle) ==
    \E k \in 0..(Len(hay) - Len(needle)) :
        SubSeq(hay, k + 1, k + Len(needle)) = needle

\* Number.prototype.toString(2) of a non-negative integer
RECURSIVE ToBinaryString(_)
ToBinaryString(n) ==
    IF n < 2 THEN <<Zero + n>>
    ELSE ToBinaryString(n \div 2) \o <<Zero + (n % 2)>>

\* parseInt(s, 2) of a string of '0' and '1'
RECURSIVE ParseInt2(_)
ParseInt2(s) ==
    IF Len(s) = 0 THEN 0
    ELSE 2 * ParseInt2(SubSeq(s, 1, Len(s) - 1)) + (s[Len(s)] - Zero)

\* String.fromCharCode(code)
FromCharCode(code) == <<code % 65536>>

\* String.prototype.toUpperCase() on code units below 128
ToUpperCase(s) ==
    [i \in 1..Len(s) |-> IF s[i] >= 97 /\ s[i] <= 122 THEN s[i] - 32 ELSE s[i]]

-----------------------------------------------------------------------------
(* hashUtils.ts: the codec                                                 *)

ID_LENGTH == 6

\* "0123456789ABCDEFGHIJKLMNOPQRSTUVWXYZ"
VALID_CHARS ==
    [i \in 1..36 |-> IF i <= 10 THEN 47 + i ELSE 54 + i]

RECURSIVE idToBinaryFrom(_, _)
idToBinaryFrom(s, i) ==
    IF i > Len(s) THEN <<>>
    ELSE PadStart(ToBinaryString(s[i]), 7, Zero) \o idToBinaryFrom(s, i + 1)

\* mutant: 8 bits per character, the scheme this file used before
RECURSIVE idToBinary8From(_, _)
idToBinary8From(s, i) ==
    IF i > Len(s) THEN <<>>
    ELSE PadStart(ToBinaryString(s[i]), 8, Zero) \o idToBinary8From(s, i + 1)

idToBinary8(s) == idToBinary8From(s, 1)

\* mutant: the 7-bit code padded on the right instead of on the left
RECURSIVE idToBinaryPadEndFrom(_, _)
idToBinaryPadEndFrom(s, i) ==
    IF i > Len(s) THEN <<>>
    ELSE PadEnd(ToBinaryString(s[i]), 7, Zero) \o idToBinaryPadEndFrom(s, i + 1)

idToBinaryPadEnd(s) == idToBinaryPadEndFrom(s, 1)

idToBinary(s) == idToBinaryFrom(s, 1)

\* floor of Math.sqrt(n), and Math.ceil(Math.sqrt(n)), for a small integer n
RECURSIVE SqrtFloorFrom(_, _)
SqrtFloorFrom(n, r) ==
    IF (r + 1) * (r + 1) > n THEN r ELSE SqrtFloorFrom(n, r + 1)

CeilSqrt(n) ==
    LET r == SqrtFloorFrom(n, 0)
    IN IF r * r = n THEN r ELSE r + 1

\* mutant: 8 bits per character, the scheme this file used before
calculateGridSize8(length) ==
    LET dataBits == length * 8
        totalCells == 4 + dataBits
    IN CeilSqrt(totalCells)

calculateGridSize(length) ==
    LET dataBits == length * 7
        totalCells == 4 + dataBits
    IN CeilSqrt(totalCells)

isCorner(row, col, size) ==
    \/ row = 0 /\ col = 0
    \/ row = 0 /\ col = size - 1
    \/ row = size - 1 /\ col = 0
    \/ row = size - 1 /\ col = size - 1

\* mutant: the corner cells advance bitIndex too
RECURSIVE binaryToGridLoopCountingCorners(_, _, _, _, _, _, _)
binaryToGridLoopCountingCorners(bin, size, row, col, bi, rowArray, rows) ==
    IF row >= size THEN [grid |-> rows, bitIndex |-> bi]
    ELSE IF col >= size
         THEN binaryToGridLoopCountingCorners(bin, size, row + 1, 0, bi, <<>>,
                  Append(rows, rowArray))
         ELSE IF isCorner(row, col, size)
              THEN binaryToGridLoopCountingCorners(bin, size, row, col + 1, bi + 1,
                       Append(rowArray, FALSE), rows)
              ELSE binaryToGridLoopCountingCorners(bin, size, row, col + 1, bi + 1,
                       Append(rowArray, bi < Len(bin) /\ bin[bi + 1] = One), rows)

\* mutant: a bit string shorter than the grid is laid out again from its start
RECURSIVE binaryToGridLoopWrapping(_, _, _, _, _, _, _)
binaryToGridLoopWrapping(bin, size, row, col, bi, rowArray, rows) ==
    IF row >= size THEN [grid |-> rows, bitIndex |-> bi]
    ELSE IF col >= size
         THEN binaryToGridLoopWrapping(bin, size, row + 1, 0, bi, <<>>,
                  Append(rows, rowArray))
         ELSE IF isCorner(row, col, size)
              THEN binaryToGridLoopWrapping(bin, size, row, col + 1, bi,
                       Append(rowArray, FALSE), rows)
              ELSE binaryToGridLoopWrapping(bin, size, row, col + 1, bi + 1,
                       Append(rowArray, Len(bin) > 0 /\ bin[(bi % Len(bin)) + 1] = One),
                       rows)

\* The two nested loops of binaryToGrid, one cell per step: rows is the local
\* grid, rowArray the row being filled and bi the local bitIndex.
RECURSIVE binaryToGridLoop(_, _, _, _, _, _, _)
binaryToGridLoop(bin, size, row, col, bi, rowArray, rows) ==
    IF row >= size THEN [grid |-> rows, bitIndex |-> bi]
    ELSE IF col >= size
         THEN binaryToGridLoop(bin, size, row + 1, 0, bi, <<>>, Append(rows, rowArray))
         ELSE IF isCorner(row, col, size)
              THEN binaryToGridLoop(bin, size, row, col + 1, bi,
                       Append(rowArray, FALSE), rows)
              ELSE binaryToGridLoop(bin, size, row, col + 1, bi + 1,
                       Append(rowArray, bi < Len(bin) /\ bin[bi + 1] = One), rows)

\* binaryToGrid's returned grid together with the final value of bitIndex
binaryToGridRun(bin, size) == binaryToGridLoop(bin, size, 0, 0, 0, <<>>, <<>>)

binaryToGrid(bin, size) == binaryToGridRun(bin, size).grid

\* gridToBinary's inner loop: the bits one row adds to binary, its cells in
\* column order without the corner cells
CellBits(cells) ==
    [k \in 1..Len(cells) |-> IF cells[k].cell THEN One ELSE Zero]

\* mutant: the corner cells are read as data
gridToBinaryRowWithCorners(g, row) ==
    [c \in 1..Len(g[row + 1]) |-> IF g[row + 1][c] THEN One ELSE Zero]

gridToBinaryRow(g, row) ==
    LET indexed == [c \in 1..Len(g[row + 1]) |-> [col |-> c - 1, cell |-> g[row + 1][c]]]
        notCorner(x) == ~isCorner(row, x.col, Len(g))
    IN CellBits(SelectSeq(indexed, notCorner))

\* gridToBinary's outer loop over the rows
RECURSIVE gridToBinaryFrom(_, _)
gridToBinaryFrom(g, row) ==
    IF row >= Len(g) THEN <<>>
    ELSE gridToBinaryRow(g, row) \o gridToBinaryFrom(g, row + 1)

gridToBinary(g) == gridToBinaryFrom(g, 0)

-----------------------------------------------------------------------------
(* hashUtils.ts: the identifier hash                                       *)
(*                                                                         *)
(* A 32-bit integer is its two's-complement bit pattern in two 16-bit      *)
(* halves, [hi, lo]: the value is hi * 65536 + lo, minus 2^32 when         *)
(* hi >= 32768.  A non-negative number up to 2^32 - 1 is held the same way. *)

Half == 65536

\* hash << 5
ShiftLeft5(h) ==
    LET low == h.lo * 32
    IN [hi |-> (h.hi * 32 + (low \div Half)) % Half, lo |-> low % Half]

\* ToInt32(a - b)
Sub32(a, b) ==
    LET low == a.lo - b.lo
        borrow == IF low < 0 THEN 1 ELSE 0
    IN [hi |-> (a.hi - b.hi - borrow + 2 * Half) % Half, lo |-> (low + Half) % Half]

\* ToInt32(a + c), c a code unit
Add32(a, c) ==
    LET low == a.lo + c
    IN [hi |-> (a.hi + (low \div Half)) % Half, lo |-> low % Half]

\* Math.abs of the 32-bit integer h, as a non-negative number
Abs32(h) ==
    IF h.hi >= 32768 THEN Sub32([hi |-> 0, lo |-> 0], h) ELSE h

\* mutant: the shifted value is added to, not reduced by, the old hash
simpleHashStepAdding(hash, char) ==
    Add32(Sub32(ShiftLeft5(hash), Sub32([hi |-> 0, lo |-> 0], hash)), char)

\* one iteration of simpleHash's loop: hash = ((hash << 5) - hash) + char,
\* then hash = hash & hash
simpleHashStep(hash, char) == Add32(Sub32(ShiftLeft5(hash), hash), char)

\* The loop of simpleHash over the characters i..last (1-based) of message.
\* The test hash.hi >= 0 is always true: it makes TLC compute the accumulator
\* at every step instead of suspending it.
RECURSIVE simpleHashLoop(_, _, _, _)
simpleHashLoop(message, i, last, hash) ==
    IF hash.hi >= 0 /\ i > last THEN hash
    ELSE simpleHashLoop(message, i + 1, last, simpleHashStep(hash, message[i]))

\* the same loop, run 32 characters at a time to keep the evaluation shallow
RECURSIVE simpleHashBlocks(_, _, _)
simpleHashBlocks(message, i, hash) ==
    IF hash.hi >= 0 /\ i > Len(message) THEN hash
    ELSE simpleHashBlocks(message, Min(i + 31, Len(message)) + 1,
             simpleHashLoop(message, i, Min(i + 31, Len(message)), hash))

simpleHash(message) == Abs32(simpleHashBlocks(message, 1, [hi |-> 0, lo |-> 0]))

\* the digit characters of Number.prototype.toString: 0-9 then a-z
Digit(d) == IF d < 10 THEN 48 + d ELSE 87 + d

\* Number.prototype.toString(36) of a non-negative number n
RECURSIVE ToString36(_)
ToString36(n) ==
    LET top == n.hi % 36
        rest == top * Half + n.lo
        quotient == [hi |-> n.hi \div 36, lo |-> rest \div 36]
    IN IF quotient.hi = 0 /\ quotient.lo = 0 THEN <<Digit(rest % 36)>>
       ELSE Append(ToString36(quotient), Digit(rest % 36))

\* Number.prototype.toString() of a non-negative integer below 2^31
RECURSIVE ToDecimalString(_)
ToDecimalString(n) ==
    IF n < 10 THEN <<48 + n>>
    ELSE Append(ToDecimalString(n \div 10), 48 + (n % 10))

\* Date.now().toString(); the clock value is t.high * 10^9 + t.low milliseconds
DateNowToString(t) ==
    IF t.high = 0 THEN ToDecimalString(t.low)
    ELSE ToDecimalString(t.high) \o PadStart(ToDecimalString(t.low), 9, Zero)

\* an optional field is <<>> when undefined and <<value>> when set
Undefined == <<>>
Some(v) == <<v>>

\* JavaScript truthiness of an optional string
Truthy(field) == field # Undefined /\ Len(field[1]) > 0

IMAGE_PREFIX == 500

\* mutant: the whole of each image is hashed
RECURSIVE appendWholeImages(_, _, _)
appendWholeImages(hashInput, images, i) ==
    IF i > Len(images) THEN hashInput
    ELSE appendWholeImages(hashInput \o images[i], images, i + 1)

\* memory.images.forEach(image => hashInput += image.substring(0, 500))
RECURSIVE appendImages(_, _, _)
appendImages(hashInput, images, i) ==
    IF i > Len(images) THEN hashInput
    ELSE appendImages(hashInput \o Substring(images[i], 0, IMAGE_PREFIX), images, i + 1)

\* hashMemory's hashInput before the fallback test
contentInput(memory) ==
    LET afterTitle == IF Truthy(memory.title) THEN memory.title[1] ELSE <<>>
        afterText == IF Truthy(memory.text) THEN afterTitle \o memory.text[1]
                     ELSE afterTitle
    IN IF memory.images # Undefined /\ Len(memory.images[1]) > 0
       THEN appendImages(afterText, memory.images[1], 1)
       ELSE afterText

\* mutant: the identifier is not padded
formatIdUnpadded(hash) ==
    Substring(ToUpperCase(ToString36(hash)), 0, ID_LENGTH)

\* hash.toString(36).toUpperCase().substring(0, ID_LENGTH).padEnd(ID_LENGTH, '0')
formatId(hash) ==
    PadEnd(Substring(ToUpperCase(ToString36(hash)), 0, ID_LENGTH), ID_LENGTH, Zero)

\* hashMemory(memory) run while the clock shows now: the final hashInput, whether
\* Date.now() was called, and the identifier returned
hashMemory(memory, now) ==
    LET content == contentInput(memory)
        fallback == Len(content) = 0
        hashInput == IF fallback THEN DateNowToString(now) ELSE content
    IN [called |-> TRUE,
        memory |-> memory,
        now |-> now,
        hashInput |-> hashInput,
        clockRead |-> fallback,
        id |-> formatId(simpleHash(hashInput))]

-----------------------------------------------------------------------------
(* The decoders of the analyzing page and of the manual page               *)

\* '******', the initial value of patternId on both pages
NoPattern == [i \in 1..6 |-> Star]

hasData(g) == \E r \in 1..Len(g) : \E c \in 1..Len(g[r]) : g[r][c]

\* mutant: nothing is pushed for a chunk that is short or empty
decodeCharSkipping(bin, i) ==
    LET start == i * 7
        chunk == Substring(bin, start, start + 7)
    IN IF Len(chunk) < 7 \/ chunk = [k \in 1..7 |-> Zero]
       THEN <<>>
       ELSE LET char == FromCharCode(ParseInt2(chunk))
            IN IF Includes(VALID_CHARS, ToUpperCase(char)) THEN char ELSE <<Star>>

\* mutant: the alphabet test is case-sensitive
decodeCharCaseSensitive(bin, i) ==
    LET start == i * 7
        chunk == Substring(bin, start, start + 7)
    IN IF Len(chunk) < 7 \/ chunk = [k \in 1..7 |-> Zero]
       THEN <<Star>>
       ELSE LET char == FromCharCode(ParseInt2(chunk))
            IN IF Includes(VALID_CHARS, char) THEN char ELSE <<Star>>

\* one iteration of the analyzing page's decoding loop: the character pushed
decodeChar(bin, i) ==
    LET start == i * 7
        chunk == Substring(bin, start, start + 7)
    IN IF Len(chunk) < 7 \/ chunk = [k \in 1..7 |-> Zero]
       THEN <<Star>>
       ELSE LET paddedChunk == PadEnd(chunk, 7, Zero)
                asciiCode == ParseInt2(paddedChunk)
                char == FromCharCode(asciiCode)
            IN IF Includes(VALID_CHARS, ToUpperCase(char))
               THEN char
               ELSE <<Star>>

\* mutant: one unreadable character makes the whole identifier unreadable
decodePatternAllOrNothing(g) ==
    IF ~hasData(g) THEN NoPattern
    ELSE LET bin == gridToBinary(g)
             all == decodeChar(bin, 0) \o decodeChar(bin, 1) \o decodeChar(bin, 2)
                    \o decodeChar(bin, 3) \o decodeChar(bin, 4) \o decodeChar(bin, 5)
         IN IF \E i \in 1..Len(all) : all[i] = Star THEN NoPattern ELSE all

\* decodePattern of the analyzing page: the value it leaves in patternId
decodePattern(g) ==
    IF ~hasData(g) THEN NoPattern
    ELSE LET bin == gridToBinary(g)
         IN decodeChar(bin, 0) \o decodeChar(bin, 1) \o decodeChar(bin, 2)
            \o decodeChar(bin, 3) \o decodeChar(bin, 4) \o decodeChar(bin, 5)

\* one iteration of the manual page's decoding loop
decodeCharManual(bin, i) ==
    LET start == i * 7
        chunk == Substring(bin, start, start + 7)
    IN IF Len(chunk) < 7 \/ chunk = [k \in 1..7 |-> Zero]
       THEN <<Star>>
       ELSE LET paddedChunk == PadEnd(chunk, 7, Zero)
                asciiCode == ParseInt2(<<Zero>> \o paddedChunk)
                char == FromCharCode(asciiCode)
            IN IF Includes(VALID_CHARS, ToUpperCase(char))
               THEN char
               ELSE <<Star>>

\* decodePattern of the manual page
decodePatternManual(g) ==
    IF ~(\E r \in 1..Len(g) : \E c \in 1..Len(g[r]) : g[r][c] = TRUE)
    THEN NoPattern
    ELSE LET bin == gridToBinary(g)
         IN decodeCharManual(bin, 0) \o decodeCharManual(bin, 1)
            \o decodeCharManual(bin, 2) \o decodeCharManual(bin, 3)
            \o decodeCharManual(bin, 4) \o decodeCharManual(bin, 5)

-----------------------------------------------------------------------------
(* diagonalOptimizer.ts: extractDiagonalLines                              *)
(*                                                                         *)
(* A cell is the pair <<row, col>>; the key `${row},${col}` of the visited *)
(* sets and of skipCorners is that pair.                                   *)

NWSE == "nw-se"
NESW == "ne-sw"

\* the column step of a direction: the row step is +1 for both
ColStep(direction) == IF direction = NWSE THEN 1 ELSE -1

\* mutant: the excluded set is not consulted
isValidStitchUnskipped(g, skip, row, col) ==
    IF row < 0 \/ row >= Len(g) \/ col < 0 \/ col >= Len(g) THEN FALSE
    ELSE col < Len(g[row + 1]) /\ g[row + 1][col + 1]

\* grid[row][col] of a JavaScript array of arrays: undefined (falsy) past the
\* end of the row
isValidStitch(g, skip, row, col) ==
    IF row < 0 \/ row >= Len(g) \/ col < 0 \/ col >= Len(g) THEN FALSE
    ELSE IF <<row, col>> \in skip THEN FALSE
    ELSE col < Len(g[row + 1]) /\ g[row + 1][col + 1]

\* mutant: a run is extended by one cell at most
extendLineOnce(g, skip, endRow, endCol, direction) ==
    IF isValidStitch(g, skip, endRow + 1, endCol + ColStep(direction))
    THEN [endRow |-> endRow + 1, endCol |-> endCol + ColStep(direction)]
    ELSE [endRow |-> endRow, endCol |-> endCol]

\* the while loop of a trace: endRow and endCol when it stops
RECURSIVE extendLine(_, _, _, _, _)
extendLine(g, skip, endRow, endCol, direction) ==
    IF isValidStitch(g, skip, endRow + 1, endCol + ColStep(direction))
    THEN extendLine(g, skip, endRow + 1, endCol + ColStep(direction), direction)
    ELSE [endRow |-> endRow, endCol |-> endCol]

\* the cells markVisited is called on while one line is traced
MarkedCells(startRow, startCol, endRow, direction) ==
    {<<startRow + t, startCol + t * ColStep(direction)>> : t \in 0..(endRow - startRow)}

\* mutant: the cells a run is extended over are not marked visited
RECURSIVE traceLoopUnmarked(_, _, _, _, _, _)
traceLoopUnmarked(g, skip, direction, k, visited, found) ==
    IF k >= Len(g) * Len(g) THEN [lines |-> found, visited |-> visited]
    ELSE LET row == k \div Len(g)
             col == k % Len(g)
         IN IF ~isValidStitch(g, skip, row, col) \/ <<row, col>> \in visited
            THEN traceLoopUnmarked(g, skip, direction, k + 1, visited, found)
            ELSE LET end == extendLine(g, skip, row, col, direction)
                 IN traceLoopUnmarked(g, skip, direction, k + 1,
                        visited \cup {<<row, col>>},
                        Append(found, [startRow |-> row, startCol |-> col,
                                       endRow |-> end.endRow, endCol |-> end.endCol,
                                       direction |-> direction]))

\* The two nested for loops of one family, one cell (row, col) = (k div
\* gridSize, k mod gridSize) per step: found are the lines pushed so far and
\* visited is the family's visited set.
RECURSIVE traceLoop(_, _, _, _, _, _)
traceLoop(g, skip, direction, k, visited, found) ==
    IF k >= Len(g) * Len(g) THEN [lines |-> found, visited |-> visited]
    ELSE LET row == k \div Len(g)
             col == k % Len(g)
         IN IF ~isValidStitch(g, skip, row, col) \/ <<row, col>> \in visited
            THEN traceLoop(g, skip, direction, k + 1, visited, found)
            ELSE LET end == extendLine(g, skip, row, col, direction)
                 IN traceLoop(g, skip, direction, k + 1,
                        visited \cup MarkedCells(row, col, end.endRow, direction),
                        Append(found, [startRow |-> row, startCol |-> col,
                                       endRow |-> end.endRow, endCol |-> end.endCol,
                                       direction |-> direction]))

\* mutant: one visited set serves both families
extractDiagonalLinesOneVisitedSet(g, skip) ==
    LET first == traceLoop(g, skip, NWSE, 0, {}, <<>>)
    IN traceLoop(g, skip, NESW, 0, first.visited, first.lines).lines

\* extractDiagonalLines(grid, skipCorners): lines holds the NW-SE lines, then
\* the NE-SW ones, each family traced with its own empty visited set
extractDiagonalLines(g, skip) ==
    traceLoop(g, skip, NWSE, 0, {}, <<>>).lines
        \o traceLoop(g, skip, NESW, 0, {}, <<>>).lines

-----------------------------------------------------------------------------
(* patternGenerator.ts and patternMigration.ts                             *)
(*                                                                         *)
(* A PatternData is [grid, id, config]; id is optional as a stored pattern *)
(* of an older format has none.                                            *)

DEFAULT_CELL_SIZE == 20

\* mutant: the pattern is regenerated in the 8 x 8 format
generatePatternFromMemoryEightByEight(memory, now) ==
    LET newId == hashMemory([title |-> Undefined, text |-> memory.text,
                              images |-> Undefined], now).id
        bin == idToBinary(newId)
    IN [id |-> Some(newId),
        grid |-> binaryToGrid(bin, 8),
        config |-> [gridSize |-> 8, cellSize |-> DEFAULT_CELL_SIZE]]

\* generatePatternFromMemory(memory) run while the clock shows now.  The
\* object handed to hashMemory is the literal { text: memory.text, image:
\* memory.image }: it has no title and no images property.
generatePatternFromMemory(memory, now) ==
    LET newId == hashMemory([title |-> Undefined, text |-> memory.text,
                              images |-> Undefined], now).id
        bin == idToBinary(newId)
        size == calculateGridSize(ID_LENGTH)
    IN [id |-> Some(newId),
        grid |-> binaryToGrid(bin, size),
        config |-> [gridSize |-> size, cellSize |-> DEFAULT_CELL_SIZE]]

\* mutant: a grid of the declared size passes whatever that size is
needsMigrationAnySize(pattern) ==
    IF ~Truthy(pattern.id) THEN TRUE
    ELSE IF Len(pattern.grid) # pattern.config.gridSize THEN TRUE
    ELSE FALSE

needsMigration(pattern) ==
    IF ~Truthy(pattern.id) THEN TRUE
    ELSE IF Len(pattern.grid) # pattern.config.gridSize THEN TRUE
    ELSE IF pattern.config.gridSize = 16 \/ pattern.config.gridSize = 8 THEN TRUE
    ELSE FALSE

\* migrateMend(mend) run while the clock shows now
migrateMend(mend, now) ==
    [mend EXCEPT !.pattern = generatePatternFromMemory(mend.memory, now),
                 !.updatedAt = now]

\* one iteration of migrateAllMends: the mend pushed to migratedMends
migrateAllMendsStep(mend, now) ==
    IF needsMigration(mend.pattern) THEN migrateMend(mend, now) ELSE mend

-----------------------------------------------------------------------------
(* svgGenerator.ts: generateSVG                                            *)
(*                                                                         *)
(* The document is the list of its elements in order.  A length is kept in *)
(* hundredths of a pixel, so that cellSize * 0.35 is cellSize * 35.        *)

Line(group, x1, y1, x2, y2) ==
    [kind |-> "line", group |-> group, x1 |-> x1, y1 |-> y1, x2 |-> x2, y2 |-> y2]

\* the elements of <g id="fiducials">: X, ||, O and the square
fiducialElements(gridSize_, cellSize) ==
    LET trX == (gridSize_ + 1) * cellSize * 100
        blY == (gridSize_ + 1) * cellSize * 100
        brX == (gridSize_ + 1) * cellSize * 100
        brY == (gridSize_ + 1) * cellSize * 100
    IN << Line("fiducials", cellSize * 10, cellSize * 10, cellSize * 90, cellSize * 90),
          Line("fiducials", cellSize * 90, cellSize * 10, cellSize * 10, cellSize * 90),
          Line("fiducials", trX + cellSize * 35, cellSize * 10,
                            trX + cellSize * 35, cellSize * 90),
          Line("fiducials", trX + cellSize * 65, cellSize * 10,
                            trX + cellSize * 65, cellSize * 90),
          [kind |-> "circle", group |-> "fiducials",
           cx |-> cellSize * 50, cy |-> blY + cellSize * 50, r |-> cellSize * 38],
          [kind |-> "rect", group |-> "fiducials",
           x |-> brX + cellSize * 10, y |-> brY + cellSize * 10,
           width |-> cellSize * 80, height |-> cellSize * 80] >>

\* mutant: the diagonals are drawn in grid coordinates, without the border
\* offset
stitchElementUnshifted(line, cellSize) ==
    LET x1 == IF line.direction = NWSE THEN line.startCol * cellSize * 100
              ELSE (line.startCol + 1) * cellSize * 100
        y1 == line.startRow * cellSize * 100
        x2 == IF line.direction = NWSE THEN (line.endCol + 1) * cellSize * 100
              ELSE line.endCol * cellSize * 100
        y2 == (line.endRow + 1) * cellSize * 100
    IN Line("stitches", x1, y1, x2, y2)

\* the <line> of one diagonal line, offset by one cell for the border
stitchElement(line, cellSize) ==
    LET x1 == IF line.direction = NWSE THEN (line.startCol + 1) * cellSize * 100
              ELSE (line.startCol + 2) * cellSize * 100
        y1 == (line.startRow + 1) * cellSize * 100
        x2 == IF line.direction = NWSE THEN (line.endCol + 2) * cellSize * 100
              ELSE (line.endCol + 1) * cellSize * 100
        y2 == (line.endRow + 2) * cellSize * 100
    IN Line("stitches", x1, y1, x2, y2)

\* generateSVG(pattern, cellSize)
generateSVG(pattern, cellSize) ==
    LET gridSize_ == pattern.config.gridSize
        diagonalLines == extractDiagonalLines(pattern.grid, {})
    IN [width |-> (gridSize_ + 2) * cellSize * 100,
        height |-> (gridSize_ + 2) * cellSize * 100,
        title |-> pattern.id,
        desc |-> pattern.id,
        elements |-> fiducialElements(gridSize_, cellSize)
                         \o [i \in 1..Len(diagonalLines) |->
                                stitchElement(diagonalLines[i], cellSize)]]

-----------------------------------------------------------------------------
(* The encoder, the optimizer and the decoder as their callers run them:   *)
(* what they return and whether they throw.  None of idToBinary,           *)
(* binaryToGrid, extractDiagonalLines, gridToBinary and decodePattern has  *)
(* a throw statement, and none reads a property of an undefined value: a   *)
(* row is read only below grid.length, and a cell past the end of a row is *)
(* undefined, which is falsy.                                              *)

\* mutant: the encoder rejects an identifier that is not ID_LENGTH long
encodeChecked(s) ==
    IF Len(s) # ID_LENGTH THEN [threw |-> TRUE, binary |-> <<>>, result |-> <<>>]
    ELSE LET bin == idToBinary(s)
         IN [threw |-> FALSE,
             binary |-> bin,
             result |-> binaryToGrid(bin, calculateGridSize(ID_LENGTH))]

\* idToBinary(id), then binaryToGrid(binary, gridSize) with the grid size of
\* ID_LENGTH characters
encode(s) ==
    LET bin == idToBinary(s)
    IN [threw |-> FALSE,
        binary |-> bin,
        result |-> binaryToGrid(bin, calculateGridSize(ID_LENGTH))]

\* extractDiagonalLines(pattern.grid) as generateSVG and PatternEditor call it:
\* pattern.config.gridSize is not handed over
optimize(pattern) ==
    [threw |-> FALSE, result |-> extractDiagonalLines(pattern.grid, {})]

\* decodePattern of the analyzing page on the grid the service returned
decode(g) ==
    [threw |-> FALSE, result |-> decodePattern(g)]

-----------------------------------------------------------------------------
(* Inputs: identifiers, bit strings, and the grids a camera or a user      *)
(* hands to the decoders                                                   *)

A1B2C3 == <<65, 49, 66, 50, 67, 51>>

\* 36 identifiers that put every symbol at every position
RotatedIds ==
    {[i \in 1..ID_LENGTH |-> VALID_CHARS[((k + 7 * (i - 1)) % 36) + 1]] : k \in 0..35}

\* "A1B2C3" with one position replaced by any symbol
OneOffIds ==
    {[A1B2C3 EXCEPT ![i] = VALID_CHARS[c]] : i \in 1..ID_LENGTH, c \in 1..36}

IdPool ==
    RotatedIds \cup OneOffIds
        \cup {[i \in 1..ID_LENGTH |-> Zero], [i \in 1..ID_LENGTH |-> 90]}

\* the identifiers whose grids are also scanned with arbitrary noise
NoisePool == {A1B2C3, [i \in 1..ID_LENGTH |-> 90]}

\* every string of '0' and '1' of length n
BitStrings(n) == [1..n -> {Zero, One}]

\* bit strings handed to binaryToGrid directly: every short one, and some
\* longer than the largest grid holds
BinaryPool ==
    UNION {BitStrings(n) : n \in 0..MaxBits}
        \cup {idToBinary(A1B2C3), [i \in 1..70 |-> One],
              [i \in 1..45 |-> IF i % 2 = 1 THEN One ELSE Zero]}

\* strings and images for the memories
Str_a == <<97>>
Str_b == <<98>>
Str_ab == <<97, 98>>
Str_nul == <<0>>
Str_long == <<109, 101, 109, 111, 114, 121, 32, 109, 101, 110, 100>>
Str_high == [i \in 1..7 |-> 65535]
\* "polygenelubricants": the accumulator ends at -2^31
Str_min ==
    <<112, 111, 108, 121, 103, 101, 110, 101, 108, 117, 98, 114, 105, 99, 97, 110, 116, 115>>

\* n characters of base64-like data
ImageData(n, step, offset) == [i \in 1..n |-> 48 + ((step * i + offset) % 75)]

ImageA == ImageData(IMAGE_PREFIX, 7, 3)
ImageB == ImageData(IMAGE_PREFIX, 11, 5)

Memory(title, text, images) == [title |-> title, text |-> text, images |-> images]

MemoryPool ==
    { Memory(Undefined, Undefined, Undefined),
      Memory(Some(<<>>), Some(<<>>), Some(<<>>)),
      Memory(Some(Str_a), Undefined, Undefined),
      Memory(Undefined, Some(Str_a), Undefined),
      Memory(Some(Str_a), Some(Str_b), Undefined),
      Memory(Some(Str_ab), Undefined, Undefined),
      Memory(Undefined, Undefined, Some(<<Str_ab>>)),
      Memory(Some(Str_nul), Undefined, Undefined),
      Memory(Undefined, Some(Str_long), Undefined),
      Memory(Some(Str_high), Undefined, Undefined),
      Memory(Undefined, Some(Str_min), Undefined),
      Memory(Undefined, Undefined, Some(<<ImageA>>)),
      Memory(Undefined, Undefined, Some(<<ImageA \o Str_a>>)),
      Memory(Undefined, Undefined, Some(<<ImageA \o Str_long>>)),
      Memory(Some(Str_a), Undefined, Some(<<ImageA \o Str_a, ImageB \o Str_b>>)),
      Memory(Undefined, Some(Str_a), Some(<<ImageA \o Str_b, ImageB>>)),
      Memory(Undefined, Some(Str_a), Some(<<ImageB, ImageA>>)) }

\* clock values, in milliseconds since the epoch
Clocks ==
    { [high |-> 1762, low |-> 171200000],
      [high |-> 1762, low |-> 171200001],
      [high |-> 1893, low |-> 456000000] }


\* the n x n grid whose true cells are those with flattened position in S
GridWith(n, S) == [r \in 1..n |-> [c \in 1..n |-> (r - 1) * n + (c - 1) \in S]]

\* the n x n grids with at most MaxStitches true cells, and those with fewer
\* than MaxStitches false cells
SparseGrids(n) ==
    {GridWith(n, {})}
        \cup {GridWith(n, {f[i] : i \in 1..MaxStitches}) :
                 f \in [1..MaxStitches -> 0..(n * n - 1)]}

DenseGrids(n) ==
    {GridWith(n, 0..(n * n - 1))}
        \cup {GridWith(n, (0..(n * n - 1)) \ {f[i] : i \in 1..(MaxStitches - 1)}) :
                 f \in [1..(MaxStitches - 1) -> 0..(n * n - 1)]}

\* the corner cells of an n x n grid, as a caller passes them in skipCorners
CornerCells(n) == {<<0, 0>>, <<0, n - 1>>, <<n - 1, 0>>, <<n - 1, n - 1>>}

\* the excluded sets handed to extractDiagonalLines with an n x n grid
SkipPool(n) ==
    {{}, CornerCells(n), {<<1, 1>>}, {<<0, 2>>, <<1, 1>>, <<2, 2>>}}

\* the grids handed to extractDiagonalLines: the free ones and encoded patterns
StitchGridPool ==
    UNION {SparseGrids(n) \cup DenseGrids(n) : n \in 0..MaxLinesSize}
        \cup {binaryToGrid(idToBinary(s), calculateGridSize(ID_LENGTH)) : s \in NoisePool}
        \cup {GridWith(3, {0, 4, 8}), GridWith(3, {2, 4, 6}), GridWith(4, {0, 5, 10, 15})}

\* stored patterns: with or without an identifier, any row count and any
\* declared grid size
Pattern(patternId_, rows, size) ==
    [grid |-> GridWith(rows, {}),
     id |-> patternId_,
     config |-> [gridSize |-> size, cellSize |-> DEFAULT_CELL_SIZE]]

PatternPool ==
    {Pattern(i, rows, size) :
        i \in {Undefined, Some(<<>>), Some(A1B2C3)},
        rows \in 0..MaxPatternSize,
        size \in 0..MaxPatternSize}

\* the memories of the stored mends
MigrationMemories ==
    { Memory(Undefined, Undefined, Undefined),
      Memory(Some(Str_a), Undefined, Undefined),
      Memory(Undefined, Some(Str_a), Undefined),
      Memory(Some(Str_a), Some(Str_b), Undefined),
      Memory(Undefined, Some(Str_b), Undefined),
      Memory(Undefined, Some(Str_long), Some(<<Str_ab>>)),
      Memory(Undefined, Undefined, Some(<<Str_ab>>)),
      Memory(Some(<<>>), Some(<<>>), Some(<<>>)) }

\* the patterns of the stored mends: the 16 x 16 format without identifier,
\* the 8 x 8 format, a 7 x 7 grid without identifier, and the current format
OldPatterns ==
    { Pattern(Undefined, 16, 16),
      Pattern(Some([i \in 1..ID_LENGTH |-> 90]), 8, 8),
      Pattern(Undefined, 7, 7),
      [grid |-> binaryToGrid(idToBinary(A1B2C3), 7), id |-> Some(A1B2C3),
       config |-> [gridSize |-> 7, cellSize |-> DEFAULT_CELL_SIZE]] }

MendPool ==
    {[id |-> "mend", memory |-> m, pattern |-> p, updatedAt |-> [high |-> 0, low |-> 0]] :
        m \in MigrationMemories, p \in OldPatterns}

\* the flattened (row-major) positions of the corner cells of a size x size grid
CornerPositions(size) ==
    {0, size - 1, (size - 1) * size, size * size - 1}

\* how many data cells a size x size grid has
DataCellCount(size) ==
    IF size = 0 THEN 0 ELSE size * size - Cardinality(CornerPositions(size))

\* the rank, among the data cells in row-major order, of the cell (row, col)
DataIndex(size, row, col) ==
    LET flat == row * size + col
    IN flat - Cardinality({p \in CornerPositions(size) : p < flat})

\* grid g (size x size) with the data cells number k0, k0+1, ... overwritten
\* by the bits of the string bits
WriteBits(g, k0, bits) ==
    [r \in 1..Len(g) |->
        [c \in 1..Len(g[r]) |->
            LET k == DataIndex(Len(g), r - 1, c - 1)
            IN IF /\ ~isCorner(r - 1, c - 1, Len(g))
                  /\ k >= k0
                  /\ k < k0 + Len(bits)
               THEN bits[k - k0 + 1] = One
               ELSE g[r][c]]]

\* grid g with corner cells replaced: cv maps "TL", "TR", "BL", "BR" to BOOLEAN
SetCorners(g, cv) ==
    LET n == Len(g)
    IN [r \in 1..n |->
          [c \in 1..Len(g[r]) |->
              IF r = 1 /\ c = 1 THEN cv.TL
              ELSE IF r = 1 /\ c = n THEN cv.TR
              ELSE IF r = n /\ c = 1 THEN cv.BL
              ELSE IF r = n /\ c = n THEN cv.BR
              ELSE g[r][c]]]

CornerValues == [TL : BOOLEAN, TR : BOOLEAN, BL : BOOLEAN, BR : BOOLEAN]

\* the first rows rows of g, each cut to its first cols cells
Crop(g, rows, cols) ==
    [r \in 1..Min(rows, Len(g)) |-> SubSeq(g[r], 1, Min(cols, Len(g[r])))]

\* identifiers of every length up to MaxIdChars, of the characters 'A' and '1'
IdStrings == UNION {[1..n -> {65, 49}] : n \in 0..MaxIdChars}

\* grids that are not 7 x 7: parts of an encoded grid, and an 8 x 8 grid
MismatchedGrids ==
    {Crop(binaryToGrid(idToBinary(s), 7), rows, cols) :
        s \in NoisePool, rows \in 0..7, cols \in 0..7}
        \cup {GridWith(8, {1, 9, 18, 27, 36, 62}), GridWith(8, {})}

\* the patterns handed to generateSVG, and the cell sizes of its callers
SvgPatterns ==
    {[grid |-> binaryToGrid(idToBinary(s), 7), id |-> s,
      config |-> [gridSize |-> 7, cellSize |-> DEFAULT_CELL_SIZE]] : s \in IdPool}
        \cup {[grid |-> GridWith(n, S), id |-> A1B2C3,
               config |-> [gridSize |-> n, cellSize |-> DEFAULT_CELL_SIZE]] :
                 n \in 2..3, S \in {{}, {1}, {1, 3}, {1, 2, 3}}}

CellSizes == {20, 28}

\* what the detection service answers: a grid and a confidence in percent
ResultGrids ==
    {binaryToGrid(idToBinary(s), 7) : s \in NoisePool}
        \cup {WriteBits(binaryToGrid(idToBinary(A1B2C3), 7), 0, [k \in 1..7 |-> Zero]),
              GridWith(7, {}), <<>>}

DetectionResults == {[grid |-> g, confidence |-> c] : g \in ResultGrids, c \in {30, 59, 60, 95}}

\* the analyzing page before it is mounted
PageInit ==
    [pc |-> "unmounted", mounted |-> FALSE, abandoned |-> FALSE, isScanning |-> TRUE,
     grid |-> <<>>, patternId |-> NoPattern, found |-> FALSE,
     confidence |-> -1, lookedUp |-> FALSE, asked |-> FALSE, answer |-> "none",
     saved |-> FALSE]

\* the manual page before it is mounted
ManualInit ==
    [pc |-> "unmounted", detectionError |-> "null", error |-> "null",
     patternId |-> NoPattern, found |-> FALSE,
     lookedUp |-> FALSE, asked |-> FALSE, answer |-> "none", saved |-> FALSE]

\* the strings handed to simpleHash: every string up to MaxMessageLen of a few
\* code units, and longer ones whose accumulator overflows
MessageCodes == {0, 1, 97, 65535}

MessagePool ==
    UNION {[1..n -> MessageCodes] : n \in 0..MaxMessageLen}
        \cup {Str_long, Str_high, Str_min, Str_min \o Str_high,
              [i \in 1..33 |-> 122], [i \in 1..64 |-> 65535]}

-----------------------------------------------------------------------------
(* The pattern workflow: a pattern is generated, then photographed and     *)
(* decoded on the analyzing page, then possibly re-entered on the manual   *)
(* page                                                                    *)

NoScan == [kind |-> "none", pos |-> 0, val |-> 0]

\* component state of the two scan pages when they are not mounted
PagesInit ==
    /\ scan = NoScan
    /\ scanGrid = <<>>
    /\ patternId = NoPattern
    /\ manualGrid = <<>>
    /\ manualPatternId = NoPattern

NoCall == [called |-> FALSE]

\* no pattern generated, no page mounted
CodecIdle ==
    /\ id = <<>>
    /\ binary = <<>>
    /\ gridSize = 0
    /\ grid = <<>>
    /\ bitIndex = 0
    /\ PagesInit

\* hashMemory not called yet
HashIdle ==
    /\ firstCall = NoCall
    /\ secondCall = NoCall

\* calculateGridSize not called yet
SizeIdle ==
    /\ idLength = 0
    /\ requiredSize = 0

\* extractDiagonalLines not called yet
LinesIdle ==
    /\ stitchGrid = <<>>
    /\ skipCorners = {}
    /\ lines = <<>>

NoPatternChecked == [grid |-> <<>>, id |-> Undefined, config |-> [gridSize |-> -1, cellSize |-> 0]]

\* needsMigration and migrateAllMends not called yet
MigrationIdle ==
    /\ checkedPattern = NoPatternChecked
    /\ needs = FALSE
    /\ firstMigration = NoCall
    /\ secondMigration = NoCall

NoContractCall == [op |-> "none"]

NoSvg == [width |-> 0, height |-> 0, title |-> <<>>, desc |-> <<>>, elements |-> <<>>]

\* generateSVG not called yet
SvgIdle ==
    /\ svgPattern = NoPatternChecked
    /\ svgCellSize = 0
    /\ svg = NoSvg

\* the scan flow not started, nothing saved
AnalyzingIdle ==
    /\ route = "/scan"
    /\ scannedImage = FALSE
    /\ detectionError = "null"
    /\ historyMends = {}
    /\ page = PageInit
    /\ manualPage = ManualInit

\* simpleHash not called yet
SimpleHashIdle ==
    /\ hashArg = <<>>
    /\ hashValue = [hi |-> 0, lo |-> 0]

\* historyStore before its constructor has run, with empty storage
HistoryIdle ==
    /\ storedMends = {}
    /\ mends = {}
    /\ loads = <<>>
    /\ deletedIds = {}

\* mendStore as its field initialisers leave it
NoWorkflow ==
    [step |-> "capture", image |-> "null", detection |-> "null",
     detectionAttempted |-> FALSE, detectionError |-> "null",
     memory |-> Undefined, pattern |-> Undefined]

\* the scanning page as its component state starts
ScanningInit ==
    [pc |-> "unmounted", scanCount |-> 0, detectionComplete |-> FALSE,
     detectionResult |-> "null", error |-> "null", request |-> "none",
     scanInterval |-> FALSE, proceeded |-> 0]

\* the workflow before any page has acted, with no draft in storage
WorkflowIdle ==
    /\ mendStore = NoWorkflow
    /\ currentMend = Undefined
    /\ settingMemory = Undefined
    /\ scanning = ScanningInit
    /\ location = "/"

\* the stores at rest
StoresIdle ==
    /\ HistoryIdle
    /\ WorkflowIdle

\* the later components at rest
LaterIdle ==
    /\ LinesIdle
    /\ MigrationIdle
    /\ contractCall = NoContractCall
    /\ SvgIdle
    /\ AnalyzingIdle
    /\ SimpleHashIdle
    /\ StoresIdle

Init ==
    /\ CodecIdle
    /\ HashIdle
    /\ SizeIdle
    /\ LaterIdle

Fresh == id = <<>> /\ binary = <<>> /\ gridSize = 0

\* generatePatternFromMemory, after hashMemory returned the identifier s
GeneratePattern(s) ==
    /\ Fresh
    /\ scan = NoScan
    /\ LET bin == idToBinary(s)
           size == calculateGridSize(ID_LENGTH)
           run == binaryToGridRun(bin, size)
       IN /\ id' = s
          /\ binary' = bin
          /\ gridSize' = size
          /\ grid' = run.grid
          /\ bitIndex' = run.bitIndex
    /\ UNCHANGED <<pageVars, hashVars, sizeVars, laterVars>>

\* binaryToGrid called on its own with a bit string and a grid size
BinaryToGrid(bin, size) ==
    /\ Fresh
    /\ scan = NoScan
    /\ size > 0
    /\ LET run == binaryToGridRun(bin, size)
       IN /\ id' = <<>>
          /\ binary' = bin
          /\ gridSize' = size
          /\ grid' = run.grid
          /\ bitIndex' = run.bitIndex
    /\ UNCHANGED <<pageVars, hashVars, sizeVars, laterVars>>

\* mendStore.reset: the pattern is discarded
Discard ==
    /\ ~Fresh
    /\ scan = NoScan
    /\ id' = <<>>
    /\ binary' = <<>>
    /\ gridSize' = 0
    /\ grid' = <<>>
    /\ bitIndex' = 0
    /\ UNCHANGED <<pageVars, hashVars, sizeVars, laterVars>>

\* analyzing page, onMount once the detection service answered with grid g:
\* grid = result.grid; decodePattern()
Detected(g, how) ==
    /\ scan = NoScan
    /\ scan' = how
    /\ scanGrid' = g
    /\ patternId' = decodePattern(g)
    /\ manualGrid' = <<>>
    /\ manualPatternId' = NoPattern
    /\ UNCHANGED <<codecVars, hashVars, sizeVars, laterVars>>

\* the service reads the stitched grid exactly
DetectExact == Detected(grid, [kind |-> "exact", pos |-> 0, val |-> 0])

\* the service misses every stitch of character i
DetectErased(i) ==
    /\ scan = NoScan
    /\ DataCellCount(Len(grid)) >= 7 * (i + 1)
    /\ Detected(WriteBits(grid, 7 * i, [k \in 1..7 |-> Zero]),
                [kind |-> "erased", pos |-> i, val |-> 0])

\* the service reads the 7 cells of character i as the bits of v
DetectNoisy(i, v) ==
    /\ scan = NoScan
    /\ id \in NoisePool
    /\ DataCellCount(Len(grid)) >= 7 * (i + 1)
    /\ Detected(WriteBits(grid, 7 * i, PadStart(ToBinaryString(v), 7, Zero)),
                [kind |-> "noisy", pos |-> i, val |-> v])

\* the service reads the corner glyphs as stitches
DetectCorners(cv) ==
    /\ scan = NoScan
    /\ id \in NoisePool \/ (id = <<>> /\ Len(binary) > MaxBits)
    /\ Len(grid) >= 1
    /\ cv.TL \/ cv.TR \/ cv.BL \/ cv.BR
    /\ Detected(SetCorners(grid, cv), [kind |-> "corners", pos |-> 0, val |-> cv])

\* the service returns only part of the grid
DetectCropped(rows, cols) ==
    /\ scan = NoScan
    /\ id \in NoisePool
    /\ rows < Len(grid) \/ cols < Len(grid)
    /\ Detected(Crop(grid, rows, cols),
                [kind |-> "cropped", pos |-> rows, val |-> cols])

\* manual page, handleGridComplete: the user re-enters the grid the camera saw
HandleGridComplete ==
    /\ scan # NoScan
    /\ manualGrid = <<>>
    /\ manualPatternId = NoPattern
    /\ manualGrid' = scanGrid
    /\ manualPatternId' = decodePatternManual(scanGrid)
    /\ UNCHANGED <<codecVars, scan, scanGrid, patternId, hashVars, sizeVars, laterVars>>

\* handleTryAgain / back: both scan pages are left
LeavePages ==
    /\ scan # NoScan
    /\ scan' = NoScan
    /\ scanGrid' = <<>>
    /\ patternId' = NoPattern
    /\ manualGrid' = <<>>
    /\ manualPatternId' = NoPattern
    /\ UNCHANGED <<codecVars, hashVars, sizeVars, laterVars>>

Next ==
    \/ \E s \in IdPool : GeneratePattern(s)
    \/ \E bin \in BinaryPool, size \in 1..MaxGridSize : BinaryToGrid(bin, size)
    \/ Discard
    \/ DetectExact
    \/ \E i \in 0..(ID_LENGTH - 1) : DetectErased(i)
    \/ \E i \in 0..(ID_LENGTH - 1), v \in 0..127 : DetectNoisy(i, v)
    \/ \E cv \in CornerValues : DetectCorners(cv)
    \/ \E rows \in 0..MaxGridSize, cols \in 0..MaxGridSize : DetectCropped(rows, cols)
    \/ HandleGridComplete
    \/ LeavePages

Spec == Init /\ [][Next]_vars

-----------------------------------------------------------------------------
(* Two calls of hashMemory                                                 *)

InitHash ==
    /\ CodecIdle
    /\ HashIdle
    /\ SizeIdle
    /\ LaterIdle

\* hashMemory(memory), called while the clock shows now
HashMemoryFirst(memory, now) ==
    /\ ~firstCall.called
    /\ firstCall' = hashMemory(memory, now)
    /\ UNCHANGED <<secondCall, codecVars, pageVars, sizeVars, laterVars>>

HashMemorySecond(memory, now) ==
    /\ firstCall.called
    /\ ~secondCall.called
    /\ secondCall' = hashMemory(memory, now)
    /\ UNCHANGED <<firstCall, codecVars, pageVars, sizeVars, laterVars>>

\* both results are dropped
ForgetCalls ==
    /\ firstCall.called
    /\ firstCall' = NoCall
    /\ secondCall' = NoCall
    /\ UNCHANGED <<codecVars, pageVars, sizeVars, laterVars>>

NextHash ==
    \/ \E memory \in MemoryPool, now \in Clocks : HashMemoryFirst(memory, now)
    \/ \E memory \in MemoryPool, now \in Clocks : HashMemorySecond(memory, now)
    \/ ForgetCalls

SpecHash == InitHash /\ [][NextHash]_vars

-----------------------------------------------------------------------------
(* Calls of calculateGridSize                                              *)

InitGridSize ==
    /\ CodecIdle
    /\ HashIdle
    /\ SizeIdle
    /\ LaterIdle

CalculateGridSize(length) ==
    /\ idLength' = length
    /\ requiredSize' = calculateGridSize(length)
    /\ UNCHANGED <<codecVars, pageVars, hashVars, laterVars>>

NextGridSize == \E length \in 1..MaxIdLength : CalculateGridSize(length)

SpecGridSize == InitGridSize /\ [][NextGridSize]_vars

-----------------------------------------------------------------------------
(* Calls of extractDiagonalLines                                           *)

\* the variables of the codec, the scan pages, the hash and the grid size
baseVars == <<codecVars, pageVars, hashVars, sizeVars>>

InitLines ==
    /\ CodecIdle
    /\ HashIdle
    /\ SizeIdle
    /\ LaterIdle

\* extractDiagonalLines(g, skip)
ExtractDiagonalLines(g, skip) ==
    /\ stitchGrid = <<>>
    /\ skipCorners = {}
    /\ stitchGrid' = g
    /\ skipCorners' = skip
    /\ lines' = extractDiagonalLines(g, skip)
    /\ UNCHANGED <<baseVars, storeVars, migrationVars, contractVars, svgVars, analyzingVars, simpleHashVars>>

\* the result is dropped
ForgetLines ==
    /\ stitchGrid # <<>> \/ skipCorners # {}
    /\ stitchGrid' = <<>>
    /\ skipCorners' = {}
    /\ lines' = <<>>
    /\ UNCHANGED <<baseVars, storeVars, migrationVars, contractVars, svgVars, analyzingVars, simpleHashVars>>

NextLines ==
    \/ /\ LinesIdle
       /\ \E g \in StitchGridPool : \E skip \in SkipPool(Len(g)) :
              ExtractDiagonalLines(g, skip)
    \/ ForgetLines

SpecLines == InitLines /\ [][NextLines]_vars

-----------------------------------------------------------------------------
(* Calls of needsMigration                                                 *)

InitNeedsMigration ==
    /\ CodecIdle
    /\ HashIdle
    /\ SizeIdle
    /\ LaterIdle

\* needsMigration(pattern)
NeedsMigration(pattern) ==
    /\ checkedPattern' = pattern
    /\ needs' = needsMigration(pattern)
    /\ UNCHANGED <<firstMigration, secondMigration, baseVars, storeVars, linesVars, contractVars, svgVars, analyzingVars, simpleHashVars>>

\* the result is dropped
ForgetNeedsMigration ==
    /\ checkedPattern # NoPatternChecked
    /\ checkedPattern' = NoPatternChecked
    /\ needs' = FALSE
    /\ UNCHANGED <<firstMigration, secondMigration, baseVars, storeVars, linesVars, contractVars, svgVars, analyzingVars, simpleHashVars>>

NextNeedsMigration ==
    \/ /\ checkedPattern = NoPatternChecked
       /\ \E pattern \in PatternPool : NeedsMigration(pattern)
    \/ ForgetNeedsMigration

SpecNeedsMigration == InitNeedsMigration /\ [][NextNeedsMigration]_vars

-----------------------------------------------------------------------------
(* Two steps of migrateAllMends                                            *)

InitMigration ==
    /\ CodecIdle
    /\ HashIdle
    /\ SizeIdle
    /\ LaterIdle

\* what a step of migrateAllMends leaves behind
MigrationStep(mend, now) ==
    [called |-> TRUE,
     mend |-> mend,
     now |-> now,
     migrated |-> needsMigration(mend.pattern),
     result |-> migrateAllMendsStep(mend, now)]

MigrateFirst(mend, now) ==
    /\ ~firstMigration.called
    /\ firstMigration' = MigrationStep(mend, now)
    /\ UNCHANGED <<checkedPattern, needs, secondMigration, baseVars, storeVars, linesVars, contractVars, svgVars, analyzingVars, simpleHashVars>>

MigrateSecond(mend, now) ==
    /\ firstMigration.called
    /\ ~secondMigration.called
    /\ secondMigration' = MigrationStep(mend, now)
    /\ UNCHANGED <<checkedPattern, needs, firstMigration, baseVars, storeVars, linesVars, contractVars, svgVars, analyzingVars, simpleHashVars>>

\* both results are dropped
ForgetMigrations ==
    /\ firstMigration.called
    /\ firstMigration' = NoCall
    /\ secondMigration' = NoCall
    /\ UNCHANGED <<checkedPattern, needs, baseVars, storeVars, linesVars, contractVars, svgVars, analyzingVars, simpleHashVars>>

NextMigration ==
    \/ \E mend \in MendPool, now \in Clocks : MigrateFirst(mend, now)
    \/ \E mend \in MendPool, now \in Clocks : MigrateSecond(mend, now)
    \/ ForgetMigrations

SpecMigration == InitMigration /\ [][NextMigration]_vars

-----------------------------------------------------------------------------
(* Calls of the encoder, the optimizer and the decoder with arguments of   *)
(* any length and dimension                                                *)

InitContract ==
    /\ CodecIdle
    /\ HashIdle
    /\ SizeIdle
    /\ LaterIdle

ContractCall(op, input, declared, outcome) ==
    /\ contractCall = NoContractCall
    /\ contractCall' = [op |-> op, input |-> input, declared |-> declared,
                        threw |-> outcome.threw, result |-> outcome.result]
    /\ UNCHANGED <<baseVars, storeVars, linesVars, migrationVars, svgVars, analyzingVars, simpleHashVars>>

\* the encoder is handed the identifier s
EncodeIdentifier(s) == ContractCall("encode", s, ID_LENGTH, encode(s))

\* the optimizer is handed the grid of a pattern that declares 7 x 7
OptimizeGrid(g) ==
    ContractCall("optimize", g, 7,
        optimize([grid |-> g, id |-> Some(A1B2C3),
                  config |-> [gridSize |-> 7, cellSize |-> DEFAULT_CELL_SIZE]]))

\* the decoder is handed the grid g
DecodeGrid(g) == ContractCall("decode", g, 7, decode(g))

\* the result is dropped
ForgetContractCall ==
    /\ contractCall # NoContractCall
    /\ contractCall' = NoContractCall
    /\ UNCHANGED <<baseVars, storeVars, linesVars, migrationVars, svgVars, analyzingVars, simpleHashVars>>

NextContract ==
    \/ /\ contractCall = NoContractCall
       /\ \E s \in IdStrings : EncodeIdentifier(s)
    \/ /\ contractCall = NoContractCall
       /\ \E g \in MismatchedGrids : OptimizeGrid(g)
    \/ /\ contractCall = NoContractCall
       /\ \E g \in MismatchedGrids : DecodeGrid(g)
    \/ ForgetContractCall

SpecContract == InitContract /\ [][NextContract]_vars

-----------------------------------------------------------------------------
(* Calls of generateSVG                                                    *)

InitSvg ==
    /\ CodecIdle
    /\ HashIdle
    /\ SizeIdle
    /\ LaterIdle

\* generateSVG(pattern, cellSize)
GenerateSVG(pattern, cellSize) ==
    /\ svgCellSize = 0
    /\ svgPattern' = pattern
    /\ svgCellSize' = cellSize
    /\ svg' = generateSVG(pattern, cellSize)
    /\ UNCHANGED <<baseVars, storeVars, linesVars, migrationVars, contractVars, analyzingVars, simpleHashVars>>

\* the document is dropped
ForgetSvg ==
    /\ svgCellSize # 0
    /\ svgPattern' = NoPatternChecked
    /\ svgCellSize' = 0
    /\ svg' = NoSvg
    /\ UNCHANGED <<baseVars, storeVars, linesVars, migrationVars, contractVars, analyzingVars, simpleHashVars>>

NextSvg ==
    \/ \E pattern \in SvgPatterns, cellSize \in CellSizes : GenerateSVG(pattern, cellSize)
    \/ ForgetSvg

SpecSvg == InitSvg /\ [][NextSvg]_vars

-----------------------------------------------------------------------------
(* The analyzing page: onMount sends the image to the detection service    *)
(* and continues when the answers arrive; the user may leave the page      *)
(* meanwhile.  page.pc is the await the callback is suspended at.          *)

\* everything the analyzing page does not touch
notAnalyzingVars ==
    <<manualPage, baseVars, storeVars, linesVars, migrationVars, contractVars, svgVars,
      simpleHashVars>>

\* everything the manual page does not touch
notManualVars ==
    <<page, baseVars, storeVars, linesVars, migrationVars, contractVars, svgVars, simpleHashVars>>

InitAnalyzing ==
    /\ CodecIdle
    /\ HashIdle
    /\ SizeIdle
    /\ LinesIdle
    /\ MigrationIdle
    /\ contractCall = NoContractCall
    /\ SvgIdle
    /\ route = "/scan"
    /\ scannedImage \in BOOLEAN
    /\ detectionError = "null"
    /\ historyMends \in SUBSET NoisePool
    /\ page = PageInit
    /\ manualPage = ManualInit
    /\ SimpleHashIdle
    /\ StoresIdle

\* scan page: the image is captured and the analyzing page is opened
OpenAnalyzing ==
    /\ route = "/scan"
    /\ page.pc = "unmounted"
    /\ route' = "/scan/analyzing"
    /\ UNCHANGED <<scannedImage, detectionError, historyMends, page, notAnalyzingVars>>

\* onMount up to the first await: without an image back to /scan, else the
\* request is sent
OnMount ==
    /\ route = "/scan/analyzing"
    /\ page.pc = "unmounted"
    /\ IF ~scannedImage
       THEN /\ route' = "/scan"
            /\ page' = [page EXCEPT !.pc = "done", !.mounted = TRUE]
       ELSE /\ route' = route
            /\ page' = [page EXCEPT !.pc = "fetch", !.mounted = TRUE]
    /\ UNCHANGED <<scannedImage, detectionError, historyMends, notAnalyzingVars>>

\* TopBar back button or handleTryAgain: the user leaves for /scan and the
\* component is destroyed; the request, if any, stays in flight
LeaveAnalyzing ==
    /\ page.mounted
    /\ route = "/scan/analyzing"
    /\ route' = "/scan"
    /\ page' = [page EXCEPT !.mounted = FALSE,
                            !.abandoned = page.pc \in {"fetch", "json"}]
    /\ UNCHANGED <<scannedImage, detectionError, historyMends, notAnalyzingVars>>

\* the catch block of onMount
CatchDetectionError(message) ==
    /\ detectionError' = message
    /\ route' = "/scan/manual"
    /\ page' = [page EXCEPT !.pc = "done"]
    /\ UNCHANGED <<scannedImage, historyMends, notAnalyzingVars>>

\* await fetch(...) rejects: the service cannot be reached
FetchRejects ==
    /\ page.pc = "fetch"
    /\ CatchDetectionError("Cannot reach detection service")

\* await fetch(...) resolves with response.ok = ok
FetchResolves(ok) ==
    /\ page.pc = "fetch"
    /\ IF ~ok
       THEN CatchDetectionError("Pattern detection failed")
       ELSE /\ page' = [page EXCEPT !.pc = "json"]
            /\ UNCHANGED <<route, scannedImage, detectionError, historyMends,
                           notAnalyzingVars>>

\* await response.json() rejects
JsonRejects ==
    /\ page.pc = "json"
    /\ CatchDetectionError("Pattern detection failed")

\* mutant: a confidence of exactly 0.6 counts as low
lowConfidenceInclusive(result) == result.confidence <= 60

\* result.confidence < 0.6, the confidence in percent
lowConfidence(result) == result.confidence < 60

\* await response.json() resolves with result: the rest of the try block up to
\* the await of lookupMend
JsonResolves(result) ==
    /\ page.pc = "json"
    /\ IF Len(result.grid) = 0
       THEN \* result.grid[0].map throws a TypeError
            CatchDetectionError("Cannot reach detection service")
       ELSE LET decoded == decodePattern(result.grid)
                shown == [page EXCEPT !.grid = result.grid, !.isScanning = FALSE,
                                      !.patternId = decoded,
                                      !.confidence = result.confidence]
            IN IF Includes(decoded, <<Star>>)
               THEN /\ detectionError' = "Could not decode complete pattern"
                    /\ route' = "/scan/manual"
                    /\ page' = [shown EXCEPT !.pc = "done"]
                    /\ UNCHANGED <<scannedImage, historyMends, notAnalyzingVars>>
               ELSE IF lowConfidence(result)
               THEN /\ detectionError' = "Low confidence"
                    /\ route' = "/scan/manual"
                    /\ page' = [shown EXCEPT !.pc = "done"]
                    /\ UNCHANGED <<scannedImage, historyMends, notAnalyzingVars>>
               ELSE \* lookupMend: the local lookup, then the await of Supabase
                    /\ page' = IF decoded \in historyMends
                               THEN [shown EXCEPT !.pc = "done", !.found = TRUE,
                                                  !.lookedUp = TRUE]
                               ELSE [shown EXCEPT !.pc = "supabase",
                                                  !.lookedUp = TRUE, !.asked = TRUE]
                    /\ UNCHANGED <<route, scannedImage, detectionError, historyMends,
                                   notAnalyzingVars>>

\* await findInSupabase(patternId) resolves, with a mend or with null, or it
\* rejects.  addMend hands the mend to saveMend, which catches the error of a
\* failed localStorage.setItem (quota exceeded) itself: addMend returns, and
\* the mend is assigned whether it was saved or not.
SupabaseResolves(answer, quotaExceeded) ==
    /\ page.pc = "supabase"
    /\ historyMends' = IF answer = "mend" /\ ~quotaExceeded
                       THEN historyMends \cup {page.patternId}
                       ELSE historyMends
    /\ page' = [page EXCEPT !.pc = "done", !.answer = answer,
                            !.found = (answer = "mend"),
                            !.saved = (answer = "mend" /\ ~quotaExceeded)]
    /\ UNCHANGED <<route, scannedImage, detectionError, notAnalyzingVars>>

\* manual page, onMount: without an image back to /scan, else the image and
\* the detection error are read and scanStore is cleared
ManualOnMount ==
    /\ route = "/scan/manual"
    /\ manualPage.pc = "unmounted"
    /\ IF ~scannedImage
       THEN /\ route' = "/scan"
            /\ manualPage' = [manualPage EXCEPT !.pc = "done"]
            /\ UNCHANGED <<scannedImage, detectionError>>
       ELSE /\ manualPage' = [manualPage EXCEPT !.pc = "ready",
                                                !.detectionError = detectionError]
            /\ scannedImage' = FALSE
            /\ detectionError' = "null"
            /\ route' = route
    /\ UNCHANGED <<historyMends, notManualVars>>

\* manual page, handleGridComplete(completedGrid)
ManualGridComplete(completedGrid) ==
    /\ route = "/scan/manual"
    /\ manualPage.pc = "ready"
    /\ manualPage' = [manualPage EXCEPT !.error = "null",
                                        !.patternId = decodePatternManual(completedGrid)]
    /\ UNCHANGED <<route, scannedImage, detectionError, historyMends, notManualVars>>

\* manual page, unlockMend up to its await: the local lookup, then the request
\* to Supabase
UnlockMend ==
    /\ route = "/scan/manual"
    /\ manualPage.pc = "ready"
    /\ IF manualPage.patternId \in historyMends
       THEN /\ manualPage' = [manualPage EXCEPT !.pc = "done", !.error = "null",
                                                !.found = TRUE, !.lookedUp = TRUE,
                                                !.asked = FALSE, !.answer = "none",
                                                !.saved = FALSE]
            /\ route' = "/history/id"
       ELSE /\ manualPage' = [manualPage EXCEPT !.pc = "supabase", !.error = "null",
                                                !.found = FALSE, !.lookedUp = TRUE,
                                                !.asked = TRUE, !.answer = "none",
                                                !.saved = FALSE]
            /\ route' = route
    /\ UNCHANGED <<scannedImage, detectionError, historyMends, notManualVars>>

\* manual page, await findInSupabase(patternId) resolves or rejects
ManualSupabaseResolves(answer, quotaExceeded) ==
    /\ manualPage.pc = "supabase"
    /\ LET found == answer = "mend"
           saved == answer = "mend" /\ ~quotaExceeded
       IN /\ historyMends' = IF saved THEN historyMends \cup {manualPage.patternId}
                             ELSE historyMends
          /\ manualPage' = [manualPage EXCEPT
                               !.pc = IF found THEN "done" ELSE "ready",
                               !.answer = answer,
                               !.found = found, !.saved = saved,
                               !.error = IF found THEN "null" ELSE "Pattern not found"]
          /\ route' = IF found THEN "/history/id" ELSE route
    /\ UNCHANGED <<scannedImage, detectionError, notManualVars>>

NextAnalyzing ==
    \/ OpenAnalyzing
    \/ OnMount
    \/ LeaveAnalyzing
    \/ FetchRejects
    \/ \E ok \in BOOLEAN : FetchResolves(ok)
    \/ JsonRejects
    \/ \E result \in DetectionResults : JsonResolves(result)
    \/ \E answer \in {"mend", "null", "rejected"}, quotaExceeded \in BOOLEAN :
          SupabaseResolves(answer, quotaExceeded)
    \/ ManualOnMount
    \/ \E completedGrid \in ResultGrids : ManualGridComplete(completedGrid)
    \/ UnlockMend
    \/ \E answer \in {"mend", "null", "rejected"}, quotaExceeded \in BOOLEAN :
          ManualSupabaseResolves(answer, quotaExceeded)

SpecAnalyzing == InitAnalyzing /\ [][NextAnalyzing]_vars

-----------------------------------------------------------------------------
(* Calls of simpleHash                                                     *)

InitSimpleHash ==
    /\ CodecIdle
    /\ HashIdle
    /\ SizeIdle
    /\ LaterIdle

\* simpleHash(m)
SimpleHash(m) ==
    /\ hashArg = <<>>
    /\ hashArg' = <<m>>
    /\ hashValue' = simpleHash(m)
    /\ UNCHANGED <<baseVars, storeVars, linesVars, migrationVars, contractVars, svgVars,
                   analyzingVars>>

\* the result is dropped
ForgetSimpleHash ==
    /\ hashArg # <<>>
    /\ hashArg' = <<>>
    /\ hashValue' = [hi |-> 0, lo |-> 0]
    /\ UNCHANGED <<baseVars, storeVars, linesVars, migrationVars, contractVars, svgVars,
                   analyzingVars>>

NextSimpleHash ==
    \/ \E m \in MessagePool : SimpleHash(m)
    \/ ForgetSimpleHash

SpecSimpleHash == InitSimpleHash /\ [][NextSimpleHash]_vars

-----------------------------------------------------------------------------
(* historyStore.svelte.ts over storage.ts: the saved mends.  A mend is its *)
(* id and a revision that updateMend advances; storage and the list hold   *)
(* at most one mend per id.                                                *)

MendIds == {"mend-1", "mend-2"}

notStoreVars ==
    <<baseVars, linesVars, migrationVars, contractVars, svgVars, analyzingVars,
      simpleHashVars>>

\* the ids of a set of mends
IdsOf(list) == {m.id : m \in list}

\* storage.ts saveMend(mend) on the stored list: the mend with the same id is
\* replaced, else the mend is pushed
saveMend(stored, mend) == {m \in stored : m.id # mend.id} \cup {mend}

\* storage.ts deleteMend(id) on the stored list
deleteFromStorage(stored, mendId) == {m \in stored : m.id # mendId}

\* loadFromStorage's loop: saveMend for every mend of migratedMends
saveAll(stored, migratedMends) ==
    {m \in stored : m.id \notin IdsOf(migratedMends)} \cup migratedMends

InitHistory ==
    /\ CodecIdle
    /\ HashIdle
    /\ SizeIdle
    /\ LinesIdle
    /\ MigrationIdle
    /\ contractCall = NoContractCall
    /\ SvgIdle
    /\ AnalyzingIdle
    /\ SimpleHashIdle
    /\ WorkflowIdle
    /\ storedMends \in SUBSET {[id |-> i, revision |-> 0] : i \in MendIds}
    /\ mends = {}
    /\ loads = <<>>
    /\ deletedIds = {}

\* loadFromStorage up to its await on migrateAllMends: getAllMends() applied
\* to stored
loadFromStorage(stored) == Append(loads, stored)

\* the constructor, or any caller, starts loadFromStorage
LoadFromStorage ==
    /\ Len(loads) < MaxLoads
    /\ loads' = loadFromStorage(storedMends)
    /\ UNCHANGED <<storedMends, mends, deletedIds, workflowVars, notStoreVars>>

\* a suspended loadFromStorage resumes: every mend it read is saved back and
\* the list becomes what it read
LoadResumes(i) ==
    /\ i \in 1..Len(loads)
    /\ storedMends' = saveAll(storedMends, loads[i])
    /\ mends' = loads[i]
    /\ loads' = [k \in 1..(Len(loads) - 1) |-> IF k < i THEN loads[k] ELSE loads[k + 1]]
    /\ UNCHANGED <<deletedIds, workflowVars, notStoreVars>>

\* addMend(mend): saveMend, then loadFromStorage is started and not awaited
AddMend(mendId) ==
    /\ Len(loads) < MaxLoads
    /\ LET saved == saveMend(storedMends, [id |-> mendId, revision |-> 0])
       IN /\ storedMends' = saved
          /\ loads' = loadFromStorage(saved)
    /\ deletedIds' = deletedIds \ {mendId}
    /\ UNCHANGED <<mends, workflowVars, notStoreVars>>

\* updateMend(id, updates): throws unless the list has the mend
UpdateMend(mendId) ==
    /\ Len(loads) < MaxLoads
    /\ \E existing \in mends :
          /\ existing.id = mendId
          /\ existing.revision < MaxRevision
          /\ LET saved == saveMend(storedMends,
                                   [id |-> mendId, revision |-> existing.revision + 1])
             IN /\ storedMends' = saved
                /\ loads' = loadFromStorage(saved)
    /\ deletedIds' = deletedIds \ {mendId}
    /\ UNCHANGED <<mends, workflowVars, notStoreVars>>

\* deleteMend(id): deleteFromStorage, then loadFromStorage is started
DeleteMend(mendId) ==
    /\ Len(loads) < MaxLoads
    /\ LET filtered == deleteFromStorage(storedMends, mendId)
       IN /\ storedMends' = filtered
          /\ loads' = loadFromStorage(filtered)
    /\ deletedIds' = deletedIds \cup {mendId}
    /\ UNCHANGED <<mends, workflowVars, notStoreVars>>

NextHistory ==
    \/ LoadFromStorage
    \/ \E i \in 1..MaxLoads : LoadResumes(i)
    \/ \E mendId \in MendIds : AddMend(mendId)
    \/ \E mendId \in MendIds : UpdateMend(mendId)
    \/ \E mendId \in MendIds : DeleteMend(mendId)

SpecHistory == InitHistory /\ [][NextHistory]_vars

-----------------------------------------------------------------------------
(* mendStore.svelte.ts and the pages that drive it: the capture page       *)
(* (setImage), the scanning page, the memory form of the detection page    *)
(* (handleSubmit) and the preview page (reset).                            *)

MIN_SCANS == 2

notWorkflowVars ==
    <<historyVars, baseVars, linesVars, migrationVars, contractVars, svgVars,
      analyzingVars, simpleHashVars>>

\* what the memory form holds when it is submitted
FormTitles == {<<>>, Str_a}
FormTexts == {<<>>, Str_b}
FormImages == {<<>>, <<ImageA \o Str_a>>}

\* what detectDamage resolves with, and the messages it rejects with
DetectionPool == {"null", "box", "boxes"}
DetectionErrors == {"Failed to detect damage", "timeout"}

\* value || undefined, and list.length > 0 ? list : undefined
OrUndefined(value) == IF Len(value) = 0 THEN Undefined ELSE Some(value)

\* saveToStorage(): the draft saveCurrentMend writes for the store m
saveToStorage(m) ==
    Some([image |-> m.image, detection |-> m.detection,
          memory |-> m.memory, pattern |-> m.pattern])

\* the store after reset()
reset(m) == NoWorkflow

\* mutant: the scanning page proceeds as soon as the scan cycles are done
checkAndProceedTimerOnly(p) == p.scanCount >= MIN_SCANS

\* the test of checkAndProceed() on the scanning page p
checkAndProceed(p) == p.scanCount >= MIN_SCANS /\ p.detectionComplete

InitWorkflow ==
    /\ CodecIdle
    /\ HashIdle
    /\ SizeIdle
    /\ LinesIdle
    /\ MigrationIdle
    /\ contractCall = NoContractCall
    /\ SvgIdle
    /\ AnalyzingIdle
    /\ SimpleHashIdle
    /\ HistoryIdle
    /\ WorkflowIdle

\* setImage(imageData, ...) from the capture page
SetImage ==
    /\ LET m == [mendStore EXCEPT !.image = "image", !.detection = "null",
                                  !.detectionAttempted = FALSE,
                                  !.detectionError = "null", !.step = "detection"]
       IN /\ mendStore' = m
          /\ currentMend' = saveToStorage(m)
    /\ UNCHANGED <<settingMemory, scanning, location, notWorkflowVars>>

\* the scanning page mounts: without an image it redirects, with one it
\* starts the detection request and the scan interval
ScanningOnMount ==
    /\ scanning.pc = "unmounted"
    /\ IF mendStore.image = "null"
       THEN /\ scanning' = [scanning EXCEPT !.pc = "redirected"]
            /\ location' = "/capture"
       ELSE /\ scanning' = [scanning EXCEPT !.pc = "scanning", !.request = "pending",
                                            !.scanInterval = TRUE]
            /\ location' = "/scanning"
    /\ UNCHANGED <<mendStore, currentMend, settingMemory, notWorkflowVars>>

\* the end of a callback of the scanning page p: checkAndProceed()
Proceed(p) ==
    IF checkAndProceed(p)
    THEN /\ LET m == [mendStore EXCEPT !.detection = p.detectionResult,
                                       !.detectionAttempted = TRUE,
                                       !.detectionError = p.error]
            IN /\ mendStore' = m
               /\ currentMend' = saveToStorage(m)
         /\ scanning' = [p EXCEPT !.proceeded = p.proceeded + 1]
         /\ location' = "/detection"
    ELSE /\ scanning' = p
         /\ UNCHANGED <<mendStore, currentMend, location>>

\* detectDamage resolves: the then callback
DetectionResolves(result) ==
    /\ scanning.request = "pending"
    /\ Proceed([scanning EXCEPT !.request = "settled", !.detectionResult = result,
                                !.detectionComplete = TRUE])
    /\ UNCHANGED <<settingMemory, notWorkflowVars>>

\* detectDamage rejects: the catch callback
DetectionRejects(message_) ==
    /\ scanning.request = "pending"
    /\ Proceed([scanning EXCEPT !.request = "settled", !.error = message_,
                                !.detectionComplete = TRUE])
    /\ UNCHANGED <<settingMemory, notWorkflowVars>>

\* the scan interval fires
ScanIntervalFires ==
    /\ scanning.scanInterval
    /\ LET counted == [scanning EXCEPT !.scanCount = scanning.scanCount + 1]
       IN IF counted.scanCount >= MIN_SCANS
          THEN Proceed([counted EXCEPT !.scanInterval = FALSE])
          ELSE /\ scanning' = counted
               /\ UNCHANGED <<mendStore, currentMend, location>>
    /\ UNCHANGED <<settingMemory, notWorkflowVars>>

\* the visit to the scanning page is over: it has navigated away
LeaveScanning ==
    /\ scanning.pc = "redirected" \/ scanning.proceeded > 0
    /\ scanning' = ScanningInit
    /\ UNCHANGED <<mendStore, currentMend, settingMemory, location, notWorkflowVars>>

\* handleSubmit() of the memory form up to the await inside setMemory: the
\* guard, hashMemory of the form's content, and this.memory = memoryData
HandleSubmit(memoryTitle, memoryText, memoryImages, now) ==
    /\ settingMemory = Undefined
    /\ ~(Len(memoryTitle) = 0 /\ Len(memoryText) = 0 /\ Len(memoryImages) = 0)
    /\ LET content == Memory(OrUndefined(memoryTitle), OrUndefined(memoryText),
                             OrUndefined(memoryImages))
           memoryData == [id |-> hashMemory(content, now).id,
                          title |-> content.title,
                          text |-> content.text,
                          images |-> content.images]
       IN /\ mendStore' = [mendStore EXCEPT !.memory = Some(memoryData)]
          /\ settingMemory' = Some(memoryData)
    /\ UNCHANGED <<currentMend, scanning, location, notWorkflowVars>>

\* setMemory resumes with the generated pattern, saves the draft, and
\* handleSubmit navigates to the pattern page
SetMemoryResumes(now) ==
    /\ settingMemory # Undefined
    /\ LET pattern == generatePatternFromMemory(settingMemory[1], now)
           m == [mendStore EXCEPT !.pattern = Some(pattern), !.step = "pattern"]
       IN /\ mendStore' = m
          /\ currentMend' = saveToStorage(m)
    /\ settingMemory' = Undefined
    /\ location' = "/pattern"
    /\ UNCHANGED <<scanning, notWorkflowVars>>

\* reset() from the preview page: every field cleared, the draft removed
Reset ==
    /\ mendStore' = reset(mendStore)
    /\ currentMend' = Undefined
    /\ UNCHANGED <<settingMemory, scanning, location, notWorkflowVars>>

\* the capture page, the scanning page and the preview page
NextScanning ==
    \/ SetImage
    \/ ScanningOnMount
    \/ \E result \in DetectionPool : DetectionResolves(result)
    \/ \E message_ \in DetectionErrors : DetectionRejects(message_)
    \/ ScanIntervalFires
    \/ LeaveScanning
    \/ Reset

SpecScanning == InitWorkflow /\ [][NextScanning]_vars

\* the capture page, the memory form and the preview page
NextWorkflow ==
    \/ SetImage
    \/ \E memoryTitle \in FormTitles, memoryText \in FormTexts,
          memoryImages \in FormImages, now \in Clocks :
          HandleSubmit(memoryTitle, memoryText, memoryImages, now)
    \/ \E now \in Clocks : SetMemoryResumes(now)
    \/ Reset

SpecWorkflow == InitWorkflow /\ [][NextWorkflow]_vars

-----------------------------------------------------------------------------
(* Properties                                                              *)

\* a string of ID_LENGTH symbols of 0-9A-Z
IsValidId(s) ==
    /\ Len(s) = ID_LENGTH
    /\ \A i \in 1..Len(s) : (s[i] >= 48 /\ s[i] <= 57) \/ (s[i] >= 65 /\ s[i] <= 90)

CornersFalse(g) ==
    LET n == Len(g)
    IN ~g[1][1] /\ ~g[1][n] /\ ~g[n][1] /\ ~g[n][n]

IsSquare(g) == \A r \in 1..Len(g) : Len(g[r]) = Len(g)

\* C1: a valid 6-character identifier, encoded on the 7 x 7 grid and decoded
\* from that grid as stitched, comes back unchanged and without any '*'.
C1_RoundTrip ==
    (scan.kind = "exact" /\ IsValidId(id)) =>
        /\ gridSize = 7
        /\ patternId = id
        /\ \A i \in 1..Len(patternId) : patternId[i] # Star

C1_Witness ==
    /\ scan.kind = "exact"
    /\ id = A1B2C3
    /\ scanGrid = grid
    /\ patternId = A1B2C3

\* C2: the grid of a valid identifier, decoded and encoded again, is the same
\* grid cell for cell, and the corner cells are false in both grids.
C2_ReEncode ==
    (scan.kind = "exact" /\ IsValidId(id)) =>
        LET again == binaryToGrid(idToBinary(patternId), gridSize)
        IN /\ again = grid
           /\ CornersFalse(grid)
           /\ CornersFalse(again)

C2_Witness ==
    /\ scan.kind = "exact"
    /\ id = [i \in 1..ID_LENGTH |-> 90]
    /\ binaryToGrid(idToBinary(patternId), gridSize) = grid
    /\ hasData(grid)

\* C3: whatever grid the decoders are given (empty, all false, too small,
\* ragged), they leave a string of exactly 6 characters in patternId.
C3_AlwaysSixChars ==
    /\ Len(patternId) = 6
    /\ Len(manualPatternId) = 6

C3_Witness ==
    /\ scan.kind = "cropped"
    /\ hasData(scanGrid)
    /\ Len(gridToBinary(scanGrid)) < 42
    /\ manualGrid = scanGrid
    /\ Len(patternId) = 6
    /\ Len(manualPatternId) = 6

\* C4: with the 7 cells of character i read as empty, the decoder returns the
\* identifier with '*' at position i and every other position unchanged.
C4_ErasedCharacter ==
    (scan.kind = "erased" /\ IsValidId(id)) =>
        /\ patternId = [id EXCEPT ![scan.pos + 1] = Star]
        /\ \E i \in 1..Len(patternId) : patternId[i] = Star

C4_Witness ==
    /\ scan.kind = "erased"
    /\ scan.pos = 0
    /\ id = A1B2C3
    /\ patternId = <<Star, 49, 66, 50, 67, 51>>

\* the character position i must decode to, from the bit string alone
ExpectedChar(bin, i) ==
    IF Len(bin) < 7 * i + 7 THEN Star
    ELSE LET code == bin[7 * i + 1] * 64 + bin[7 * i + 2] * 32 + bin[7 * i + 3] * 16
                     + bin[7 * i + 4] * 8 + bin[7 * i + 5] * 4 + bin[7 * i + 6] * 2
                     + bin[7 * i + 7] - 127 * Zero
         IN IF code = 0 THEN Star
            ELSE IF \/ code >= 48 /\ code <= 57
                    \/ code >= 65 /\ code <= 90
                    \/ code >= 97 /\ code <= 122
                 THEN code
                 ELSE Star

\* C5: position i of the decoded string is '*' exactly when bits 7i..7i+6 are
\* missing, all zero, or the code of a character outside 0-9A-Z compared
\* case-insensitively; otherwise it is the character with that code.
C5_PerCharacter ==
    \A i \in 0..5 :
        /\ patternId[i + 1] = ExpectedChar(gridToBinary(scanGrid), i)
        /\ manualPatternId[i + 1] = ExpectedChar(gridToBinary(manualGrid), i)

C5_Witness ==
    /\ scan.kind = "noisy"
    /\ scan.val = 97
    /\ patternId[scan.pos + 1] = 97
    /\ manualPatternId = patternId

\* C8: binaryToGrid leaves the four corner cells false and gives the k-th
\* data cell bit k: the corners take no bit and do not advance bitIndex.
C8_CornersTakeNoBit ==
    (gridSize >= 2) =>
        /\ CornersFalse(grid)
        /\ bitIndex = gridSize * gridSize - 4
        /\ \A r \in 1..gridSize : \A c \in 1..gridSize :
              ~isCorner(r - 1, c - 1, gridSize) =>
                  LET k == DataIndex(gridSize, r - 1, c - 1)
                  IN grid[r][c] = (k < Len(binary) /\ binary[k + 1] = One)

C8_Witness ==
    /\ gridSize = 3
    /\ Len(binary) = 70
    /\ bitIndex = 5
    /\ grid = <<<<FALSE, TRUE, FALSE>>, <<TRUE, TRUE, TRUE>>, <<FALSE, TRUE, FALSE>>>>

\* C9: a square grid decodes to the same bit string and the same identifier
\* whatever the values of its four corner cells.
C9_CornersIgnored ==
    IsSquare(scanGrid) =>
        \A bits \in {gridToBinary(scanGrid)} :
            \A cv \in CornerValues : \A other \in {SetCorners(scanGrid, cv)} :
                /\ gridToBinary(other) = bits
                /\ decodePattern(other) = patternId

C9_Witness ==
    /\ scan.kind = "corners"
    /\ scanGrid[1][1]
    /\ scanGrid # grid
    /\ id = A1B2C3
    /\ patternId = A1B2C3

\* the string a memory stands for: title, text, and the first 500 characters
\* of each image in order
RECURSIVE ImagePrefixes(_, _)
ImagePrefixes(images, i) ==
    IF i > Len(images) THEN <<>>
    ELSE SubSeq(images[i], 1, Min(500, Len(images[i]))) \o ImagePrefixes(images, i + 1)

ContentString(memory) ==
    (IF memory.title = <<>> THEN <<>> ELSE memory.title[1])
        \o (IF memory.text = <<>> THEN <<>> ELSE memory.text[1])
        \o (IF memory.images = <<>> THEN <<>> ELSE ImagePrefixes(memory.images[1], 1))

\* C6: hashMemory returns exactly ID_LENGTH = 6 characters of 0-9A-Z for every
\* memory, the empty one included.
C6_IdAlwaysValid ==
    \A call \in {firstCall, secondCall} :
        call.called =>
            /\ Len(call.id) = 6
            /\ \A i \in 1..Len(call.id) :
                  \/ call.id[i] >= 48 /\ call.id[i] <= 57
                  \/ call.id[i] >= 65 /\ call.id[i] <= 90

C6_Witness ==
    /\ firstCall.called
    /\ secondCall.called
    /\ firstCall.memory = Memory(Undefined, Undefined, Undefined)
    /\ firstCall.clockRead
    /\ IsValidId(firstCall.id)
    /\ secondCall.memory = Memory(Undefined, Some(Str_min), Undefined)
    /\ secondCall.id = <<90, 73, 75, 48, 90, 75>>

\* C7: two calls whose memories stand for the same non-empty string return the
\* same identifier whatever the clock and whatever follows the 500-character
\* prefix of an image; the clock is read only when the string is empty.
C7_ContentOnly ==
    /\ \A call \in {firstCall, secondCall} :
          call.called => (call.clockRead <=> ContentString(call.memory) = <<>>)
    /\ (/\ firstCall.called
        /\ secondCall.called
        /\ ContentString(firstCall.memory) # <<>>
        /\ ContentString(firstCall.memory) = ContentString(secondCall.memory))
           => firstCall.id = secondCall.id

C7_Witness ==
    /\ firstCall.called
    /\ secondCall.called
    /\ firstCall.now # secondCall.now
    /\ firstCall.memory.images # Undefined
    /\ secondCall.memory.images # Undefined
    /\ Len(firstCall.memory.images[1]) > 0
    /\ Len(firstCall.memory.images[1][1]) > 500
    /\ firstCall.memory.images # secondCall.memory.images
    /\ ContentString(firstCall.memory) = ContentString(secondCall.memory)
    /\ ~firstCall.clockRead
    /\ firstCall.id = secondCall.id

\* C10: calculateGridSize(L) is the least N with N*N >= 4 + 7*L, so the N*N - 4
\* data cells hold the 7*L bits; L = 6 gives N = 7 and 45 data cells.
C10_LeastGridSize ==
    (idLength >= 1) =>
        /\ requiredSize * requiredSize >= 4 + 7 * idLength
        /\ (requiredSize - 1) * (requiredSize - 1) < 4 + 7 * idLength
        /\ requiredSize * requiredSize - 4 >= 7 * idLength
        /\ (idLength = 6) =>
              (requiredSize = 7 /\ requiredSize * requiredSize - 4 = 45)

C10_Witness ==
    /\ idLength = 6
    /\ requiredSize = 7


\* the claims' notion of a stitch: a cell inside the grid that is true and not
\* excluded
IsStitch(row, col) ==
    /\ row >= 0 /\ row < Len(stitchGrid)
    /\ col >= 0 /\ col < Len(stitchGrid)
    /\ stitchGrid[row + 1][col + 1]
    /\ <<row, col>> \notin skipCorners

Stitches ==
    {cell \in (0..(Len(stitchGrid) - 1)) \X (0..(Len(stitchGrid) - 1)) :
        IsStitch(cell[1], cell[2])}

Families == {"nw-se", "ne-sw"}

\* the column step of a family when the row grows by one
Slope(family) == IF family = "nw-se" THEN 1 ELSE -1

\* the cells of a run, from its start to its end
RunCells(line) ==
    {<<line.startRow + t, line.startCol + t * Slope(line.direction)>> :
        t \in 0..(line.endRow - line.startRow)}

\* the positions in lines of the runs of a family
RunsOf(family) == {i \in 1..Len(lines) : lines[i].direction = family}

\* C11: every true, non-excluded cell lies on exactly one returned run of each
\* family: none is omitted and no two runs of a family share a cell.
C11_OneRunPerFamily ==
    \A family \in Families : \A cell \in Stitches :
        Cardinality({i \in RunsOf(family) : cell \in RunCells(lines[i])}) = 1

C11_Witness ==
    /\ stitchGrid = GridWith(3, {0, 4, 8})
    /\ skipCorners = {}
    /\ Len(lines) = 4
    /\ lines[1] = [startRow |-> 0, startCol |-> 0, endRow |-> 2, endCol |-> 2,
                   direction |-> "nw-se"]
    /\ \A i \in 2..4 : lines[i].direction = "ne-sw" /\ lines[i].startRow = lines[i].endRow

\* C12: every returned run is maximal: the cell diagonally before its start
\* and the cell diagonally after its end are out of bounds, false or excluded.
C12_RunsMaximal ==
    \A i \in 1..Len(lines) :
        LET line == lines[i]
            step == Slope(line.direction)
        IN /\ ~IsStitch(line.startRow - 1, line.startCol - step)
           /\ ~IsStitch(line.endRow + 1, line.endCol + step)

C12_Witness ==
    /\ Len(stitchGrid) = 4
    /\ skipCorners = {<<1, 1>>}
    /\ stitchGrid[1][1] /\ stitchGrid[2][2] /\ stitchGrid[3][3] /\ stitchGrid[4][4]
    /\ \E i \in 1..Len(lines) :
          /\ lines[i].direction = "nw-se"
          /\ lines[i].startRow = 2 /\ lines[i].startCol = 2
          /\ lines[i].endRow = 3 /\ lines[i].endCol = 3

\* the straight segments of a family made only of stitches: start cell and
\* number of steps
Segments(family) ==
    {seg \in Stitches \X (0..(Len(stitchGrid) - 1)) :
        \A t \in 0..seg[2] : IsStitch(seg[1][1] + t, seg[1][2] + t * Slope(family))}

SegmentCells(seg, family) ==
    {<<seg[1][1] + t, seg[1][2] + t * Slope(family)>> : t \in 0..seg[2]}

\* the stitches with no stitch diagonally before them
Heads(family) ==
    {cell \in Stitches : ~IsStitch(cell[1] - 1, cell[2] - Slope(family))}

\* C13: per family, the number of returned runs is the least number of
\* segments that cover every stitch: the runs are such a cover, and no cover
\* is smaller, since there are as many stitches of which no two fit in one
\* segment.
C13_FewestRuns ==
    \A family \in Families :
        LET count == Cardinality(RunsOf(family))
            segments == Segments(family)
        IN /\ \A i \in RunsOf(family) :
                 <<<<lines[i].startRow, lines[i].startCol>>,
                   lines[i].endRow - lines[i].startRow>> \in segments
           /\ Stitches = UNION {RunCells(lines[i]) : i \in RunsOf(family)}
           /\ Cardinality(Heads(family)) = count
           /\ \A seg \in segments :
                 Cardinality(SegmentCells(seg, family) \cap Heads(family)) <= 1

C13_Witness ==
    /\ stitchGrid = GridWith(4, (0..15) \ {5})
    /\ skipCorners = {}
    /\ Cardinality(RunsOf("nw-se")) = 8
    /\ Cardinality(RunsOf("ne-sw")) = 8


\* a pattern without identifier: the field is missing or the empty string
HasNoIdentifier(pattern) ==
    pattern.id = <<>> \/ pattern.id = <<<<>>>>

\* C14: needsMigration is true exactly when the pattern has no identifier, or
\* its grid's row count differs from config.gridSize, or config.gridSize is 16
\* or 8; gridSize 16 needs migration, "A1B2C3" with gridSize 7 and 7 rows does
\* not, and a pattern without identifier does whatever its grid size.
C14_NeedsMigration ==
    (checkedPattern # NoPatternChecked) =>
        /\ needs <=> \/ HasNoIdentifier(checkedPattern)
                     \/ Len(checkedPattern.grid) # checkedPattern.config.gridSize
                     \/ checkedPattern.config.gridSize \in {16, 8}
        /\ (checkedPattern.config.gridSize = 16) => needs
        /\ (/\ checkedPattern.id = <<A1B2C3>>
            /\ checkedPattern.config.gridSize = 7
            /\ Len(checkedPattern.grid) = 7) => ~needs
        /\ HasNoIdentifier(checkedPattern) => needs

C14_Witness ==
    /\ checkedPattern.id = <<A1B2C3>>
    /\ checkedPattern.config.gridSize = 16
    /\ Len(checkedPattern.grid) = 16
    /\ needs

\* C15: a migrated mend's pattern is regenerated from its memory alone: its
\* identifier is the one hashMemory gives the memory's content and its grid
\* encodes that identifier, so two mends with the same non-empty content and
\* different old patterns migrate to the same pattern.
C15_RegeneratedFromMemory ==
    /\ \A step \in {firstMigration, secondMigration} :
          (step.called /\ step.migrated /\ ContentString(step.mend.memory) # <<>>) =>
              /\ step.result.pattern.id = <<hashMemory(step.mend.memory, step.now).id>>
              /\ step.result.pattern.grid =
                     binaryToGrid(idToBinary(step.result.pattern.id[1]), 7)
    /\ (/\ firstMigration.called /\ firstMigration.migrated
        /\ secondMigration.called /\ secondMigration.migrated
        /\ ContentString(firstMigration.mend.memory) # <<>>
        /\ ContentString(firstMigration.mend.memory)
               = ContentString(secondMigration.mend.memory))
           => firstMigration.result.pattern = secondMigration.result.pattern


\* the argument of the call breaks the structural contract: an identifier
\* whose length is not L, or a grid that is not N x N for the declared N
BreaksContract(call) ==
    IF call.op = "encode" THEN Len(call.input) # call.declared
    ELSE \/ Len(call.input) # call.declared
         \/ \E r \in 1..Len(call.input) : Len(call.input[r]) # call.declared

\* C16 as stated: a call that breaks the structural contract signals an error
\* to its caller instead of returning a result.
C16_FailFast ==
    (contractCall.op # "none" /\ BreaksContract(contractCall)) => contractCall.threw

\* C16 as amended: a call that breaks the structural contract signals no
\* error and returns a result: the encoder the 7 x 7 grid of the first 45
\* bits of the identifier's 7-bit codes, the optimizer a list of runs over
\* true cells of the leading square of the grid, the decoder 6 characters.
C16_NoFailure ==
    (contractCall.op # "none" /\ BreaksContract(contractCall)) =>
        /\ ~contractCall.threw
        /\ (contractCall.op = "encode") =>
              /\ Len(contractCall.result) = 7
              /\ IsSquare(contractCall.result)
              /\ CornersFalse(contractCall.result)
              /\ \A r \in 1..7 : \A c \in 1..7 :
                    ~isCorner(r - 1, c - 1, 7) =>
                        LET k == DataIndex(7, r - 1, c - 1)
                            code == contractCall.input[(k \div 7) + 1]
                        IN contractCall.result[r][c] =
                               /\ k < 7 * Len(contractCall.input)
                               /\ (code \div (2 ^ (6 - (k % 7)))) % 2 = 1
        /\ (contractCall.op = "optimize") =>
              \A i \in 1..Len(contractCall.result) :
                  \A cell \in RunCells(contractCall.result[i]) :
                      /\ cell[1] < Len(contractCall.input)
                      /\ cell[2] < Len(contractCall.input)
                      /\ cell[2] < Len(contractCall.input[cell[1] + 1])
                      /\ contractCall.input[cell[1] + 1][cell[2] + 1]
        /\ (contractCall.op = "decode") => Len(contractCall.result) = 6

C16_Witness ==
    /\ contractCall.op = "encode"
    /\ Len(contractCall.input) = 7
    /\ ~contractCall.threw
    /\ Len(contractCall.result) = 7
    /\ hasData(contractCall.result)


\* the corner cell (in cells of the bordered drawing) an element lies in, if
\* it lies within one cell: <<column, row>>, else <<-1, -1>>
CellOf(element) ==
    LET unit == svgCellSize * 100
        xs == IF element.kind = "line" THEN {element.x1, element.x2}
              ELSE IF element.kind = "circle"
                   THEN {element.cx - element.r, element.cx + element.r}
                   ELSE {element.x, element.x + element.width}
        ys == IF element.kind = "line" THEN {element.y1, element.y2}
              ELSE IF element.kind = "circle"
                   THEN {element.cy - element.r, element.cy + element.r}
                   ELSE {element.y, element.y + element.height}
        cols == {x \div unit : x \in xs}
        rows == {y \div unit : y \in ys}
    IN IF Cardinality(cols) = 1 /\ Cardinality(rows) = 1
       THEN <<CHOOSE c \in cols : TRUE, CHOOSE r \in rows : TRUE>>
       ELSE <<-1, -1>>

\* the four corner cells of the bordered drawing
DrawingCorners ==
    LET last == svgPattern.config.gridSize + 1
    IN {<<0, 0>>, <<last, 0>>, <<0, last>>, <<last, last>>}

GlyphElements == {i \in 1..Len(svg.elements) : CellOf(svg.elements[i]) \in DrawingCorners}

\* the straight strokes along the outer edge from one corner cell to the
\* next: horizontal or vertical lines that start in a corner cell's row or
\* column and span more than one cell
ConnectorElements ==
    {i \in 1..Len(svg.elements) :
        /\ svg.elements[i].kind = "line"
        /\ CellOf(svg.elements[i]) = <<-1, -1>>
        /\ \/ svg.elements[i].x1 = svg.elements[i].x2
           \/ svg.elements[i].y1 = svg.elements[i].y2}

StitchElements ==
    (1..Len(svg.elements)) \ (GlyphElements \cup ConnectorElements)

\* the elements of the document that are neither glyph nor connector are, in
\* order, the diagonals of the runs: from the upper corner of the start cell
\* to the lower corner of the end cell, one cell in from the border
StitchesFollowRuns(runs) ==
    /\ Cardinality(StitchElements) = Len(runs)
    /\ \A j \in 1..Len(runs) :
          LET i == Len(svg.elements) - Len(runs) + j
              unit == svgCellSize * 100
              left == IF runs[j].direction = "nw-se" THEN 0 ELSE 1
          IN /\ i \in StitchElements
             /\ svg.elements[i].kind = "line"
             /\ svg.elements[i].x1 = (runs[j].startCol + 1 + left) * unit
             /\ svg.elements[i].y1 = (runs[j].startRow + 1) * unit
             /\ svg.elements[i].x2 = (runs[j].endCol + 2 - left) * unit
             /\ svg.elements[i].y2 = (runs[j].endRow + 2) * unit

\* C17: the exported document consists of exactly four corner glyphs, one per
\* corner, four border connector strokes, one straight line per diagonal run
\* of extractDiagonalLines(pattern.grid) in the same order, and the
\* identifier as text.
C17_ExportedPrimitives ==
    (svgCellSize # 0) =>
        LET runs == extractDiagonalLines(svgPattern.grid, {})
        IN /\ {CellOf(svg.elements[i]) : i \in GlyphElements} = DrawingCorners
           /\ Cardinality(ConnectorElements) = 4
           /\ StitchesFollowRuns(runs)
           /\ svg.title = svgPattern.id


\* C18: once the user has left the analyzing page with the detection request
\* in flight, no later step of its callback writes scanStore.detectionError or
\* historyStore, and none navigates.
C18_AbandonedResultDiscarded ==
    [][(page.abandoned /\ page' # page) =>
          /\ detectionError' = detectionError
          /\ historyMends' = historyMends
          /\ route' = route]_vars


\* bit k (from 0) of the concatenated 7-bit codes of the characters of s
CodeBit(s, k) == (s[(k \div 7) + 1] \div (2 ^ (6 - (k % 7)))) % 2

\* C19: the grid of an identifier holds at its k-th non-corner cell, in
\* row-major order, bit k of the concatenated 7-bit character codes when
\* k < 7 * len(id) and false at every later data cell; for 6 characters on the
\* 7 x 7 grid the last 3 data cells are false.
C19_BitLayout ==
    (id # <<>> /\ scan = NoScan) =>
        /\ \A r \in 1..gridSize : \A c \in 1..gridSize :
              ~isCorner(r - 1, c - 1, gridSize) =>
                  LET k == DataIndex(gridSize, r - 1, c - 1)
                  IN grid[r][c] = (k < 7 * Len(id) /\ CodeBit(id, k) = 1)
        /\ (Len(id) = 6 /\ gridSize = 7) =>
              ~grid[7][4] /\ ~grid[7][5] /\ ~grid[7][6]
        /\ \A bits \in {idToBinary(id)} : \A n \in 2..MaxGridSize :
              \A g \in {binaryToGrid(bits, n)} : \A r \in 1..n : \A c \in 1..n :
                  ~isCorner(r - 1, c - 1, n) =>
                      LET k == DataIndex(n, r - 1, c - 1)
                      IN g[r][c] = (k < 7 * Len(id) /\ CodeBit(id, k) = 1)

C19_Witness ==
    /\ id = A1B2C3
    /\ gridSize = 7
    /\ grid[1] = <<FALSE, TRUE, FALSE, FALSE, FALSE, FALSE, FALSE>>
    /\ grid[2] = <<FALSE, TRUE, FALSE, TRUE, TRUE, FALSE, FALSE>>
    /\ grid[7] = <<FALSE, TRUE, TRUE, FALSE, FALSE, FALSE, FALSE>>


\* h * 31 + c wrapped to 32 bits, on the two 16-bit halves of h
TimesThirtyOnePlus(h, c) ==
    LET low == h.lo * 31 + c
    IN [hi |-> (h.hi * 31 + (low \div 65536)) % 65536, lo |-> low % 65536]

\* the accumulator h := h * 31 + charCode folded over the characters i.. of m
RECURSIVE Accumulate(_, _, _)
Accumulate(m, i, h) ==
    IF h.lo >= 0 /\ i > Len(m) THEN h
    ELSE Accumulate(m, i + 1, TimesThirtyOnePlus(h, m[i]))

\* the absolute value of the signed 32-bit number with halves h: h itself, or
\* 2^32 minus h when the sign bit is set
Magnitude(h) ==
    IF h.hi < 32768 THEN h
    ELSE [hi |-> (65535 - h.hi + (IF h.lo = 0 THEN 1 ELSE 0)) % 65536,
          lo |-> (65536 - h.lo) % 65536]

\* the same fold in unbounded integers, for strings too short to overflow
RECURSIVE PlainFold(_, _, _)
PlainFold(m, i, h) ==
    IF i > Len(m) THEN h ELSE PlainFold(m, i + 1, h * 31 + m[i])

\* C20: simpleHash(hashArg) is the absolute value of the 32-bit signed
\* wrap-around accumulator h := h * 31 + charCode folded from 0, also when an
\* intermediate value overflows and when the accumulator ends at -2^31.
C20_WrapAroundHash ==
    (hashArg # <<>>) =>
        /\ hashValue = Magnitude(Accumulate(hashArg[1], 1, [hi |-> 0, lo |-> 0]))
        /\ (Len(hashArg[1]) <= 4) =>
              hashValue.hi * 65536 + hashValue.lo = PlainFold(hashArg[1], 1, 0)

C20_Witness ==
    /\ hashArg = <<Str_min>>
    /\ hashValue = [hi |-> 32768, lo |-> 0]


\* the cells of the grid, stitches or not
GridCells == (0..(Len(stitchGrid) - 1)) \X (0..(Len(stitchGrid) - 1))

\* C21: every cell of every returned run, from its start to its end along the
\* diagonal, is inside the grid, true and not excluded; a false or excluded
\* cell of the grid ends the run of the stitch diagonally before it there, and
\* the stitch diagonally after it starts a new run.
C21_RunsOfStitchesOnly ==
    /\ \A i \in 1..Len(lines) :
          /\ lines[i].direction \in Families
          /\ lines[i].endRow >= lines[i].startRow
          /\ lines[i].endCol = lines[i].startCol
                 + (lines[i].endRow - lines[i].startRow) * Slope(lines[i].direction)
          /\ \A cell \in RunCells(lines[i]) : IsStitch(cell[1], cell[2])
    /\ \A family \in Families : \A gap \in GridCells \ Stitches :
          /\ IsStitch(gap[1] - 1, gap[2] - Slope(family)) =>
                \E i \in RunsOf(family) :
                    /\ lines[i].endRow = gap[1] - 1
                    /\ lines[i].endCol = gap[2] - Slope(family)
          /\ IsStitch(gap[1] + 1, gap[2] + Slope(family)) =>
                \E i \in RunsOf(family) :
                    /\ lines[i].startRow = gap[1] + 1
                    /\ lines[i].startCol = gap[2] + Slope(family)

C21_Witness ==
    /\ stitchGrid = GridWith(3, {0, 4, 8})
    /\ skipCorners = {<<1, 1>>}
    /\ \E i \in RunsOf("nw-se") : \E j \in RunsOf("nw-se") :
          /\ i < j
          /\ lines[i].startRow = 0 /\ lines[i].endRow = 0 /\ lines[i].endCol = 0
          /\ lines[j].startRow = 2 /\ lines[j].startCol = 2 /\ lines[j].endRow = 2


\* the <line> elements of <g id="stitches">, in document order
DrawnStitches ==
    SelectSeq(svg.elements, LAMBDA e : e.kind = "line" /\ e.group = "stitches")

\* C22: with cell size c, a 'nw-se' run is drawn from ((startCol+1)c,
\* (startRow+1)c) to ((endCol+2)c, (endRow+2)c) and a 'ne-sw' run from
\* ((startCol+2)c, (startRow+1)c) to ((endCol+1)c, (endRow+2)c); for a
\* gridSize x gridSize grid every such coordinate lies in [c, (gridSize+1)c].
\* Lengths are in hundredths of a pixel.
C22_StitchCoordinates ==
    (svgCellSize # 0 /\ Len(svgPattern.grid) = svgPattern.config.gridSize) =>
        LET runs == extractDiagonalLines(svgPattern.grid, {})
            c == svgCellSize * 100
            far == (svgPattern.config.gridSize + 1) * c
        IN /\ Len(DrawnStitches) = Len(runs)
           /\ \A j \in 1..Len(runs) :
                 LET e == DrawnStitches[j]
                     run == runs[j]
                 IN /\ run.direction = "nw-se" =>
                          /\ e.x1 = (run.startCol + 1) * c /\ e.y1 = (run.startRow + 1) * c
                          /\ e.x2 = (run.endCol + 2) * c /\ e.y2 = (run.endRow + 2) * c
                    /\ run.direction = "ne-sw" =>
                          /\ e.x1 = (run.startCol + 2) * c /\ e.y1 = (run.startRow + 1) * c
                          /\ e.x2 = (run.endCol + 1) * c /\ e.y2 = (run.endRow + 2) * c
                    /\ \A v \in {e.x1, e.y1, e.x2, e.y2} : c <= v /\ v <= far

C22_Witness ==
    /\ svgCellSize = 28
    /\ svgPattern.config.gridSize = 7
    /\ \E j \in 1..Len(DrawnStitches) :
          DrawnStitches[j].x1 < DrawnStitches[j].x2 /\ DrawnStitches[j].x2 = 8 * 2800
    /\ \E j \in 1..Len(DrawnStitches) :
          DrawnStitches[j].x2 < DrawnStitches[j].x1 /\ DrawnStitches[j].x2 = 2800
    /\ \E j \in 1..Len(DrawnStitches) : DrawnStitches[j].y1 = 2800
    /\ \E j \in 1..Len(DrawnStitches) : DrawnStitches[j].y2 = 8 * 2800


\* the decoded identifier holds a wildcard
HasWildcard(decoded) == \E i \in 1..Len(decoded) : decoded[i] = Star

\* C23: once the detection response has arrived the grid is decoded whatever
\* the confidence; the lookup runs if and only if the decoded identifier has
\* no '*' and the confidence is at least 0.6; every step that ends the
\* callback without a lookup (wildcard, low confidence, failed request) sets a
\* detection error and navigates to manual entry.
C23_LookupOnlyWhenDecoded ==
    /\ [](page.confidence # -1 =>
            /\ page.patternId = decodePattern(page.grid)
            /\ page.lookedUp = (~HasWildcard(page.patternId) /\ page.confidence >= 60))
    /\ [](page.lookedUp => page.confidence # -1)
    /\ [][(page.pc \in {"fetch", "json"} /\ page'.pc = "done" /\ ~page'.lookedUp) =>
            /\ detectionError' # "null"
            /\ route' = "/scan/manual"
            /\ ~page'.asked
            /\ historyMends' = historyMends]_vars
    /\ [][(page.pc \in {"fetch", "json"} /\ page'.lookedUp) =>
            /\ detectionError' = detectionError
            /\ route' = route]_vars

C23_Witness ==
    /\ page.pc = "done"
    /\ page.confidence = 59
    /\ page.patternId = A1B2C3
    /\ ~page.lookedUp
    /\ detectionError = "Low confidence"
    /\ route = "/scan/manual"

\* one step of a lookup as C24 describes it: before and after are the page
\* before and after the step, local and localAfter the local history
LookupAsDescribed(before, after, local, localAfter) ==
    /\ ((~before.lookedUp /\ after.lookedUp)
            \/ (before.pc = "ready" /\ after.pc # "ready")) =>
          /\ after.lookedUp
          /\ after.asked = (after.patternId \notin local)
          /\ after.found = (after.patternId \in local)
          /\ localAfter = local
    /\ (before.pc = "supabase" /\ after.pc # "supabase") =>
          /\ before.asked
          /\ after.found => (after.answer = "mend" /\ after.patternId \in localAfter)
          /\ after.answer = "rejected" => (~after.found /\ localAfter = local)
          /\ after.answer = "null" => (~after.found /\ localAfter = local)

\* C24: a lookup consults local history first and queries Supabase only when
\* no local mend has the pattern id; a mend found in Supabase is in local
\* history when it is shown; a Supabase error is swallowed: the mend is not
\* found, no detection error is set and the analyzing page does not navigate.
C24_LocalFirstLookup ==
    /\ [][LookupAsDescribed(page, page', historyMends, historyMends')]_vars
    /\ [][LookupAsDescribed(manualPage, manualPage', historyMends, historyMends')]_vars
    /\ [][(page.pc = "supabase" /\ page'.pc = "done") =>
            (detectionError' = detectionError /\ route' = route)]_vars
    /\ [][(manualPage.pc = "supabase" /\ manualPage'.answer = "rejected") =>
            (manualPage'.error = "Pattern not found" /\ route' = route)]_vars
    /\ [](page.asked => page.lookedUp)
    /\ [](manualPage.asked => manualPage.lookedUp)

\* '*' or one of the 36 identifier symbols 0-9, A-Z
IsDecoderSymbol(ch) ==
    ch = Star \/ (ch >= 48 /\ ch <= 57) \/ (ch >= 65 /\ ch <= 90)

\* C25: every character the decoder of either page outputs is '*' or one of
\* 0-9 and uppercase A-Z, whatever the grid.
C25_DecodedAlphabet ==
    /\ \A i \in 1..Len(patternId) : IsDecoderSymbol(patternId[i])
    /\ \A i \in 1..Len(manualPatternId) : IsDecoderSymbol(manualPatternId[i])


\* C26: migration converges in one pass: every mend migrateAllMends returns
\* has a pattern that needs no migration (a non-empty identifier, as many rows
\* as its declared grid size, which is neither 16 nor 8), so a second pass at
\* any later time returns it as it is.
C26_MigrationConverges ==
    \A step \in {firstMigration, secondMigration} :
        step.called =>
            /\ ~needsMigration(step.result.pattern)
            /\ Truthy(step.result.pattern.id)
            /\ Len(step.result.pattern.grid) = step.result.pattern.config.gridSize
            /\ step.result.pattern.config.gridSize \notin {16, 8}
            /\ \A later \in Clocks : migrateAllMendsStep(step.result, later) = step.result

C26_Witness ==
    /\ firstMigration.called /\ firstMigration.migrated
    /\ firstMigration.mend.pattern = Pattern(Undefined, 16, 16)
    /\ firstMigration.result.pattern.config.gridSize = 7
    /\ secondMigration.called /\ ~secondMigration.migrated


\* C28: once deleteMend(id) has returned and every started loadFromStorage has
\* finished, no mend with that id is in storage or in the list, as long as
\* the mend has not been added again.
C28_DeletedStaysDeleted ==
    (loads = <<>>) =>
        \A mendId \in deletedIds :
            mendId \notin IdsOf(storedMends) /\ mendId \notin IdsOf(mends)


\* C27: in the workflow, once setMemory has generated the pattern of the
\* memory the form submitted, pattern.id equals memory.id.
C27_PatternIdIsMemoryId ==
    (mendStore.memory # Undefined /\ mendStore.pattern # Undefined
        /\ settingMemory = Undefined) =>
        mendStore.pattern[1].id = Some(mendStore.memory[1].id)

\* the workflow is cleared: what reset() leaves in the store and in storage
Cleared(m, draft) ==
    /\ m.memory = Undefined
    /\ m.pattern = Undefined
    /\ m.step = "capture"
    /\ draft = Undefined

\* C29: when reset() has cleared the workflow while a setMemory call is
\* suspended, the workflow is still cleared after that call finishes.
C29_ResetSurvivesSetMemory ==
    [][(settingMemory # Undefined /\ Cleared(mendStore, currentMend)
          /\ settingMemory' = Undefined) =>
          Cleared(mendStore', currentMend')]_vars

\* C30: in a visit of the scanning page with an image, setDetection and the
\* navigation to /detection happen once, in the step in which at least
\* MIN_SCANS scan cycles have elapsed and the request has settled, whichever
\* comes last, and never a second time.
C30_ProceedsOnce ==
    /\ [](scanning.proceeded =
            IF scanning.scanCount >= MIN_SCANS /\ scanning.request = "settled"
            THEN 1 ELSE 0)
    /\ [][scanning'.proceeded > scanning.proceeded =>
            /\ mendStore'.detectionAttempted
            /\ mendStore'.detection = scanning'.detectionResult
            /\ mendStore'.detectionError = scanning'.error
            /\ location' = "/detection"]_vars
    /\ [][(scanning'.proceeded = scanning.proceeded /\ scanning' # scanning) =>
            (mendStore' = mendStore /\ location' \in {location, "/capture", "/scanning"})]_vars

\* the timer finished first and the request was rejected afterwards
C30_Witness ==
    /\ scanning.proceeded = 1
    /\ scanning.scanCount = MIN_SCANS
    /\ scanning.error = "timeout"
    /\ ~scanning.scanInterval
    /\ mendStore.detectionAttempted
    /\ mendStore.detectionError = "timeout"
    /\ location = "/detection"

=============================================================================
